---- MODULE Spec2Model ----
(***************************************************************************)
(* deadman: the daemon's device registry, the tether watchers and the      *)
(* local IPC transport (deadmand/src/main.rs, deadman-ipc/src/lib.rs).     *)
(*                                                                         *)
(* Threads: one worker per accepted connection (handle_client), one        *)
(* watcher per successful tether (monitor_device).  The registry           *)
(* (DaemonState.monitors) is guarded by one mutex; the two flags of a      *)
(* DeviceMonitor are atomics read and written without the mutex.           *)
(***************************************************************************)
EXTENDS Integers, Sequences, FiniteSets, TLC

\* Bounds of the model.
MaxConn == 3    \* connections accepted in one run
MaxHw == 2      \* hardware arrival/departure events in one run
MaxMon == 2     \* DeviceMonitor instances (successful inserts) in one run
MaxHwOneKey == 3  \* hardware events in one run of SpecOneKey
MaxHwNoFault == 1  \* departures in one run of SpecNoFault
MaxClients == 2  \* clients followed in one run of SpecClient

Conns == 1..MaxConn
Mons == 1..MaxMon

DeviceKey(b, a) == [bus |-> b, address |-> a]
\* The attachment points of the modelled bus.
Keys == {DeviceKey(1, 1), DeviceKey(1, 2)}
NoKey == DeviceKey(-1, -1)

VARIABLES
  handler,         \* the closure the IPC server was started with
  hotplug,         \* rusb::has_hotplug() of the platform
  startup,         \* main: its position, the effective uid, and the endpoint path
  present,         \* hardware: a device is attached at the key
  nhw,             \* hardware events so far
  lk,              \* each watcher's call of lock_all_sessions: its locals, and
                   \* the loginctl commands it has run
  monitors,        \* DaemonState.monitors: key -> DeviceMonitor instance (0: no entry)
  poisoned,        \* the registry mutex is poisoned: a holder panicked
  mutex,           \* holder of the registry mutex (0: free, else a connection)
  removed,         \* DeviceMonitor.removed of each instance
  lock_on_remove,  \* DeviceMonitor.lock_on_remove of each instance
  minfo,           \* key and DeviceInfo an instance was built from
  nmon,            \* instances created so far
  wpc,             \* watcher thread of each instance: position in monitor_device
  registered,      \* the watcher's hotplug callback is registered
  evq,             \* hotplug events pending in the watcher's context
  nconn,           \* connections accepted so far
  cpc,             \* worker thread of each connection: position
  peer,            \* credentials of the connection's peer
  req,             \* request text the peer sent
  loc,             \* locals of the worker running on the connection
  resp,            \* the bytes written to the connection, until it is closed
  client,          \* the client process of each connection: its position in
                   \* send_ipc_message_with_path, what it received, its result
  locks,           \* history: lock_all_sessions calls of each watcher
  cause,           \* history: the departure that last set an instance's removed
                   \* flag (id, 0 once an arrival cleared it), and whether any did
  hist             \* history: facts of the run the properties refer to

vars == <<handler, hotplug, startup, poisoned, present, nhw, lk, monitors, mutex, removed, lock_on_remove, minfo,
          nmon, wpc, registered, evq, nconn, cpc, peer, req, loc, resp, client,
          locks, cause, hist>>

hwVars == <<handler, hotplug, startup, poisoned, present, nhw, lk>>
regVars == <<monitors, mutex>>
flagVars == <<removed, lock_on_remove>>
monVars == <<minfo, nmon>>
watchVars == <<wpc, registered, evq>>
connVars == <<nconn, cpc, peer, req, loc, resp, client>>
histVars == <<locks, cause, hist>>

\* No worker is between the accept of its connection and its handler's first
\* access to the registry, between the spawn of a watcher and the return of
\* Tether, or between its write and the drop of the stream.  Those steps touch
\* only the connection, so they commute with the steps of every other thread
\* and are taken without interleaving.
Quiet == \A c \in Conns : cpc[c] \notin {"auth", "read", "t_ret", "replied"}

(***************************************************************************)
(* Request text.  A text is a sequence of words; the word " " is a run of  *)
(* whitespace.  The characters of a word are given by CharsOf.             *)
(***************************************************************************)
\* A run of 600 spaces, and its first 502.
Blank600 == "<600 spaces>"
Blank502 == "<502 spaces>"

IsSpace(w) == w \in {" ", Blank600, Blank502}

RECURSIVE TrimStart(_)
TrimStart(t) == IF t # <<>> /\ IsSpace(Head(t)) THEN TrimStart(Tail(t)) ELSE t

RECURSIVE TrimEnd(_)
TrimEnd(t) ==
  IF t # <<>> /\ IsSpace(t[Len(t)]) THEN TrimEnd(SubSeq(t, 1, Len(t) - 1)) ELSE t

\* str::trim, applied by handle_client to the bytes it read
Trim(t) == TrimEnd(TrimStart(t))

\* str::split_whitespace
SplitWhitespace(t) == SelectSeq(t, LAMBDA w : ~IsSpace(w))

CharsOf(w) ==
  CASE w = "1" -> <<"1">>
    [] w = "2" -> <<"2">>
    [] w = "0" -> <<"0">>
    [] w = "01" -> <<"0", "1">>
    [] w = "+1" -> <<"+", "1">>
    [] w = "255" -> <<"2", "5", "5">>
    [] w = "256" -> <<"2", "5", "6">>
    [] w = "-1" -> <<"-", "1">>
    [] w = "x" -> <<"x">>
    [] OTHER -> <<"?">>

IsDigit(ch) == ch \in {"0", "1", "2", "3", "4", "5", "6", "7", "8", "9"}

DigitVal(ch) ==
  CASE ch = "0" -> 0 [] ch = "1" -> 1 [] ch = "2" -> 2 [] ch = "3" -> 3
    [] ch = "4" -> 4 [] ch = "5" -> 5 [] ch = "6" -> 6 [] ch = "7" -> 7
    [] ch = "8" -> 8 [] ch = "9" -> 9

RECURSIVE DecimalValue(_)
DecimalValue(cs) ==
  IF cs = <<>> THEN 0
  ELSE 10 * DecimalValue(SubSeq(cs, 1, Len(cs) - 1)) + DigitVal(cs[Len(cs)])

\* str::parse for the unsigned integer types: an optional '+' and decimal
\* digits, Err (-1 here) when the value is beyond the type's maximum; u8 is
\* the type handle_tether asks for (lines 150-155).
ParseU16(w) ==
  LET cs == CharsOf(w)
      ds == IF cs # <<>> /\ cs[1] = "+" THEN Tail(cs) ELSE cs
  IN IF ds = <<>> \/ \E i \in 1..Len(ds) : ~IsDigit(ds[i]) THEN -1
     ELSE IF DecimalValue(ds) > 65535 THEN -1
     ELSE DecimalValue(ds)

ParseU8(w) ==
  LET cs == CharsOf(w)
      ds == IF cs # <<>> /\ cs[1] = "+" THEN Tail(cs) ELSE cs
  IN IF ds = <<>> \/ \E i \in 1..Len(ds) : ~IsDigit(ds[i]) THEN -1
     ELSE IF DecimalValue(ds) > 255 THEN -1
     ELSE DecimalValue(ds)

\* What a handler returns: Ok(body) or Err(message), as a record.
Ok(m, k, n, ls) == [tag |-> "ok", msg |-> m, key |-> k, n |-> n, lines |-> ls, word |-> ""]
Err(m, k, w) == [tag |-> "err", msg |-> m, key |-> k, n |-> 0, lines |-> {}, word |-> w]
NoResp == [tag |-> "none", msg |-> "", key |-> NoKey, n |-> 0, lines |-> {}, word |-> ""]

\* handle_command: the operation the text names, or the error it returns
\* before any handler runs.
handle_command_lax(command) ==
  LET parts == SplitWhitespace(command) IN
  IF parts = <<>> THEN [op |-> "err", err |-> Err("empty command", NoKey, "")]
  ELSE CASE parts[1] = "status" -> [op |-> "status"]
         [] parts[1] = "severe" -> [op |-> "severe"]
         [] OTHER -> [op |-> "err", err |-> Err("unknown command", NoKey, parts[1])]

handle_command(command) ==
  LET parts == SplitWhitespace(command) IN
  IF parts = <<>> THEN [op |-> "err", err |-> Err("empty command", NoKey, "")]
  ELSE LET name == parts[1] IN
    CASE name = "status" ->
           IF Len(parts) > 1
           THEN [op |-> "err", err |-> Err("unexpected argument", NoKey, parts[2])]
           ELSE [op |-> "status"]
      [] name = "tether" ->
           IF Len(parts) < 2 THEN [op |-> "err", err |-> Err("missing bus number", NoKey, "")]
           ELSE IF Len(parts) < 3 THEN [op |-> "err", err |-> Err("missing device id", NoKey, "")]
           ELSE IF Len(parts) > 3
           THEN [op |-> "err", err |-> Err("unexpected argument", NoKey, parts[4])]
           ELSE [op |-> "tether", bus |-> parts[2], address |-> parts[3]]
      [] name = "severe" ->
           IF Len(parts) > 1
           THEN [op |-> "err", err |-> Err("unexpected argument", NoKey, parts[2])]
           ELSE [op |-> "severe"]
      [] OTHER -> [op |-> "err", err |-> Err("unknown command", NoKey, name)]

\* handle_tether, lines 145-157: the key, or the error returned before the
\* registry is touched.
TetherArgs(bus, address) ==
  IF ~hotplug THEN [ok |-> FALSE, err |-> Err("hotplug not available", NoKey, "")]
  ELSE IF ParseU8(bus) = -1 THEN [ok |-> FALSE, err |-> Err("invalid bus number", NoKey, bus)]
  ELSE IF ParseU8(address) = -1
  THEN [ok |-> FALSE, err |-> Err("invalid device id", NoKey, address)]
  ELSE [ok |-> TRUE, key |-> DeviceKey(ParseU8(bus), ParseU8(address))]

\* Texts that handle_command itself rejects.
\* Requests longer than handle_client's buffer: a Tether followed by spaces.
RequestsLong == {<<"tether", " ", "1", " ", "1", Blank600>>}

ProtocolErrors ==
  { <<>>, <<" ">>, <<"foo">>, <<"status", " ", "x">>, <<"severe", " ", "x">>,
    <<"tether">>, <<"tether", " ", "1">>,
    <<"tether", " ", "1", " ", "1", " ", "x">> }

\* The requests clients send.
Requests ==
  { <<"status">>, <<"severe">>,
    <<"tether", " ", "1", " ", "1">>,
    <<" ", "tether", " ", "01", " ", "2", " ">>,
    <<"tether", " ", "x", " ", "1">>,
    <<"tether", " ", "1", " ", "256">>,
    <<"foo">> }

RequestsOneKey == {<<"status">>, <<"severe">>, <<"tether", " ", "1", " ", "1">>}

RequestsNoSevere == {<<"status">>, <<"tether", " ", "1", " ", "1">>}

RequestsSevere == {<<"severe">>, <<"tether", " ", "1", " ", "1">>}

RequestsTwoKeys == {<<"status">>, <<"severe">>, <<"tether", " ", "1", " ", "1">>,
                    <<" ", "tether", " ", "01", " ", "2", " ">>}

\* Tether requests with fields at and beyond the ends of u8, signed, and not
\* numbers.
RequestsParse ==
  RequestsOneKey \cup
  { <<"tether", " ", "01", " ", "+1">>,
    <<"tether", " ", "0", " ", "255">>,
    <<"tether", " ", "255", " ", "0">>,
    <<"tether", " ", "256", " ", "1">>,
    <<"tether", " ", "1", " ", "256">>,
    <<"tether", " ", "x", " ", "256">>,
    <<"tether", " ", "-1", " ", "1">>,
    <<"tether", " ", "1", " ", "x">> }

RequestsProtocol == RequestsOneKey \cup ProtocolErrors \cup {<<" ", "status", " ">>}

\* Whose socket it is: the daemon's own uid, another uid, or a peer whose
\* credentials cannot be read.
Peers == {"same", "other", "nocred"}

(***************************************************************************)
(* Hardware.                                                               *)
(***************************************************************************)
\* The device descriptor read at a key.  Both units are of one model, so a
\* callback filtered by vendor and product id receives the events of both.
\* The product string of the unit at address 2 cannot be read.
Descriptor(k) ==
  [vendor_id |-> 1, product_id |-> 1,
   product_name |-> IF k.address = 1 THEN "name" ELSE "None"]

NoInfo == [key |-> NoKey, vendor_id |-> 0, product_id |-> 0, product_name |-> "None"]

Event(t, k, i) == [type |-> t, key |-> k, id |-> i]

\* Hotplug events reach every context with a callback registered for the
\* device's vendor and product id (register_callback, lines 322-323).
Subscribed(m, k) ==
  /\ registered[m]
  /\ minfo[m].vendor_id = Descriptor(k).vendor_id
  /\ minfo[m].product_id = Descriptor(k).product_id

Notify(e) == [m \in Mons |-> IF Subscribed(m, e.key) THEN Append(evq[m], e) ELSE evq[m]]

\* The device at k is unplugged.
Depart(k, lim) ==
  /\ Quiet
  /\ present[k]
  /\ nhw < lim
  /\ present' = [present EXCEPT ![k] = FALSE]
  /\ nhw' = nhw + 1
  /\ evq' = Notify(Event("left", k, nhw + 1))
  /\ hist' = [hist EXCEPT !.late = @ \cup {m \in Mons : minfo[m].key = k /\ wpc[m] # "none"}]
  /\ UNCHANGED <<handler, hotplug, startup, poisoned, lk, regVars, flagVars, monVars, wpc, registered, connVars,
                 locks, cause>>

\* A device is plugged in and enumerates at k.
Arrive(k, lim) ==
  /\ Quiet
  /\ ~present[k]
  /\ nhw < lim
  /\ present' = [present EXCEPT ![k] = TRUE]
  /\ nhw' = nhw + 1
  /\ evq' = Notify(Event("arrived", k, nhw + 1))
  /\ UNCHANGED <<handler, hotplug, startup, poisoned, lk, regVars, flagVars, monVars, wpc, registered, connVars,
                 histVars>>

(***************************************************************************)
(* The registry.                                                           *)
(***************************************************************************)
Entries == {k \in Keys : monitors[k] # 0}

contains_key(k) == k \in Keys /\ monitors[k] # 0

\* HashMap::remove of a set of keys; hist.evicted records the keys that had
\* an entry.
EvictNothing(ks) == monitors
Evict(ks) == [k \in Keys |-> IF k \in ks THEN 0 ELSE monitors[k]]

Evicted(ks) == [hist EXCEPT !.evicted = @ \cup (ks \cap Entries)]


(***************************************************************************)
(* The transport: handle_client.                                           *)
(***************************************************************************)
NoLoc == [key |-> NoKey, mon |-> 0, todo |-> {}, cur |-> NoKey, n |-> 0]

\* ensure_same_user: Ok only for a peer whose uid is the daemon's euid.
ensure_any_user(p) == p \in {"same", "other"}
ensure_same_user(p) == p = "same"

\* The closure of test_ipc_server_and_client_status.
status_ok(msg) ==
  IF msg = <<"status">> THEN Ok("OK", NoKey, 0, {}) ELSE Err("Unknown command", NoKey, "")

\* The bytes handle_client writes for a handler result (lines 77-85).
ResponseBare(r) == [prefix |-> "", body |-> r]
Response(r) == [prefix |-> IF r.tag = "err" THEN "ERR: " ELSE "", body |-> r]

Nothing == Response(NoResp)

\* let mut buffer = [0; 512] (lib.rs 71).
BufferSize == 512

\* The bytes of a word.
Width(w) == CASE w = Blank600 -> 600 [] w = Blank502 -> 502 [] OTHER -> Len(w)

\* The bytes of the first i words of a text, and of the text.
RECURSIVE SizeTo(_, _)
SizeTo(t, i) == IF i = 0 THEN 0 ELSE SizeTo(t, i - 1) + Width(t[i])

Size(t) == SizeTo(t, Len(t))

\* The first n bytes of a word longer than that.
Cut(w, n) == IF w = Blank600 /\ n = 502 THEN Blank502 ELSE SubSeq(w, 1, n)

\* The first n bytes of a text: the words that fit, and the fitting part of
\* the next one.
Take(t, n) ==
  LET k == Cardinality({i \in 1..Len(t) : SizeTo(t, i) <= n})
      rest == n - SizeTo(t, k)
  IN IF k = Len(t) THEN t
     ELSE IF rest = 0 THEN SubSeq(t, 1, k)
     ELSE Append(SubSeq(t, 1, k), Cut(t[k + 1], rest))

\* Every text a peer sends in some run, and no text.
Texts == Requests \cup RequestsTwoKeys \cup RequestsParse \cup RequestsProtocol
         \cup RequestsLong \cup {<<>>}

\* What fits the buffer, of each of them.
ReadOf == [t \in Texts |-> Take(t, BufferSize)]

\* One stream.read into the buffer (lib.rs 72): the first BufferSize bytes
\* of what the client wrote.
Read(t) == ReadOf[t]

IsTether(r) == handle_command(Trim(Read(r))).op = "tether"

\* Tether requests that may still insert.
InFlightTethers ==
  {c \in Conns : cpc[c] \in {"auth", "read", "t_check", "t_lookup", "t_insert"}
                 /\ IsTether(req[c])}

(***************************************************************************)
(* main and start_ipc_server_with_path, up to the accept loop.             *)
(***************************************************************************)
RootUid == 0
UserUid == 1000

\* What main may find at the socket path: nothing, the socket file of an
\* earlier run, or something remove_file cannot remove (a directory).
Found == {"absent", "stale", "blocked"}

\* Uid::is_root
is_root_any(uid) == TRUE
is_root(uid) == uid = RootUid

\* The listener is bound and main is in the accept loop.
Listening == [pc |-> "serve", euid |-> RootUid, found |-> "absent", path |-> "bound"]

\* check_privileges (main.rs 48-57): exit(1) unless the effective uid is root.
check_privileges ==
  /\ startup.pc = "main"
  /\ startup' = [startup EXCEPT !.pc = IF is_root(startup.euid) THEN "remove" ELSE "exit"]
  /\ UNCHANGED <<handler, hotplug, poisoned, present, nhw, lk, regVars, flagVars, monVars, watchVars,
                 connVars, histVars>>

\* lib.rs 34: `let _ = fs::remove_file(socket_path)`, its result dropped.
RemoveFile ==
  /\ startup.pc = "remove"
  /\ startup' = [startup EXCEPT !.pc = "bind",
                                !.path = IF @ = "stale" THEN "absent" ELSE @]
  /\ UNCHANGED <<handler, hotplug, poisoned, present, nhw, lk, regVars, flagVars, monVars, watchVars,
                 connVars, histVars>>

\* lib.rs 35: UnixListener::bind(..).expect(..) panics on Err; the path in
\* use is one cause of Err.
Bind ==
  /\ startup.pc = "bind"
  /\ \E ok \in (IF startup.path = "absent" THEN BOOLEAN ELSE {FALSE}) :
       startup' = IF ok THEN [startup EXCEPT !.pc = "serve", !.path = "bound"]
                        ELSE [startup EXCEPT !.pc = "panic"]
  /\ UNCHANGED <<handler, hotplug, poisoned, present, nhw, lk, regVars, flagVars, monVars, watchVars,
                 connVars, histVars>>

\* How many connections a server accepts: the loop over incoming() of
\* start_ipc_server_with_path (lib.rs 40) goes on for ever, here up to
\* MaxConn; start_ipc_server_once_with_path calls accept() once (lib.rs 23).
AcceptsAlways(h) == MaxConn
Accepts(h) == IF h = "handle_command" THEN MaxConn ELSE 1

\* The listener accepts the next connection and spawns its worker (the
\* single-shot server runs handle_client itself).
Accepted(p, r) ==
  /\ startup.pc = "serve"
  /\ Quiet
  /\ nconn < Accepts(handler)
  /\ IsTether(r) => nmon + Cardinality(InFlightTethers) < MaxMon
  /\ nconn' = nconn + 1
  /\ cpc' = [cpc EXCEPT ![nconn + 1] = "auth"]
  /\ peer' = [peer EXCEPT ![nconn + 1] = p]
  /\ req' = [req EXCEPT ![nconn + 1] = r]
  /\ UNCHANGED <<hwVars, regVars, flagVars, monVars, watchVars, loc, resp, histVars>>

\* A peer that has written its request by the time it is accepted; what
\* becomes of it is not followed.
Accept(p, r) == Accepted(p, r) /\ UNCHANGED client

\* No client is followed on the connection.
NoClient == [pc |-> "none", uid |-> "same", inbox |-> Nothing, end |-> "open",
             res |-> [tag |-> "none", text |-> <<>>]]

\* stream.read (lib.rs 72) returns once the peer has written: write_all has
\* returned in a client that is followed.
Readable(c) == client[c].pc # "connected"

\* Bytes of the client that the worker has not read when it drops the
\* stream: all that was written when it returns before its read (line 68) or
\* its read failed, else what did not fit in the buffer.
Unread(c) ==
  /\ client[c].pc \in {"written", "shut"}
  /\ Size(req[c]) > (IF cpc[c] = "replied" THEN BufferSize ELSE 0)

\* How the stream ends for the client once the worker has dropped its end:
\* end of file; with bytes unread in the dropped socket the client's end is
\* reset (Linux), or ends as if they had been read.
Ends(c) == IF Unread(c) THEN {"reset", "eof"} ELSE {"eof"}

\* The client's end of the stream after the drop: the bytes the worker wrote
\* are in its receive queue.
Closed(c, e) ==
  IF client[c].pc = "none" THEN client[c]
  ELSE [client[c] EXCEPT !.inbox = resp[c], !.end = e]

\* handle_client returns and the stream is dropped: the connection is closed.
Close(c) ==
  /\ \E e \in Ends(c) : client' = [client EXCEPT ![c] = Closed(c, e)]
  /\ cpc' = [cpc EXCEPT ![c] = "closed"]
  /\ peer' = [peer EXCEPT ![c] = "same"]
  /\ req' = [req EXCEPT ![c] = <<>>]
  /\ resp' = [resp EXCEPT ![c] = Nothing]
  /\ loc' = [loc EXCEPT ![c] = NoLoc]

\* The handler returns r and handle_client writes the response (lines 77-87).
Reply(c, r) ==
  /\ cpc' = [cpc EXCEPT ![c] = "replied"]
  /\ resp' = [resp EXCEPT ![c] = Response(r)]
  /\ loc' = [loc EXCEPT ![c] = NoLoc]
  /\ UNCHANGED <<peer, req, client>>

\* The handler goes on at position pc.
Goto(c, pc) ==
  /\ cpc' = [cpc EXCEPT ![c] = pc]
  /\ UNCHANGED <<peer, req, resp, client>>

\* handle_client, lines 66-69.
Authenticate(c) ==
  /\ cpc[c] = "auth"
  /\ IF ensure_same_user(peer[c])
     THEN Goto(c, "read") /\ UNCHANGED <<loc, hist>>
     ELSE Close(c) /\ hist' = [hist EXCEPT !.rejected = @ + 1]
  /\ UNCHANGED <<hwVars, regVars, flagVars, monVars, watchVars, nconn, locks, cause>>

\* handle_client, lines 71-77, and handle_command: the request is read,
\* trimmed and parsed up to the first access to the registry.
Dispatch(c) ==
  /\ cpc[c] = "read"
  /\ Readable(c)
  /\ LET cmd == IF handler = "handle_command" THEN handle_command(Trim(Read(req[c])))
                ELSE [op |-> "err", err |-> status_ok(Trim(Read(req[c])))] IN
     CASE cmd.op = "err" -> Reply(c, cmd.err)
       [] cmd.op = "status" -> Goto(c, "st_retain") /\ loc' = loc
       [] cmd.op = "severe" -> Goto(c, "sv_lock") /\ loc' = loc
       [] cmd.op = "tether" ->
            LET a == TetherArgs(cmd.bus, cmd.address) IN
            IF a.ok THEN Goto(c, "t_check") /\ loc' = [loc EXCEPT ![c].key = a.key]
            ELSE Reply(c, a.err)
  /\ UNCHANGED <<hwVars, regVars, flagVars, monVars, watchVars, nconn, histVars>>

\* stream.read fails (lines 89-91): nothing is handled or written.
ReadError(c) ==
  /\ cpc[c] = "read"
  /\ Close(c)
  /\ UNCHANGED <<hwVars, regVars, flagVars, monVars, watchVars, nconn, histVars>>

\* Line 93: handle_client returns after the write and the stream is dropped.
Drop(c) ==
  /\ cpc[c] = "replied"
  /\ Close(c)
  /\ UNCHANGED <<hwVars, regVars, flagVars, monVars, watchVars, nconn, histVars>>

(***************************************************************************)
(* handle_status.                                                          *)
(***************************************************************************)
\* The entries retain() drops (line 113).
PurgedNone == {}
Purged == {k \in Entries : removed[monitors[k]]}

StatusLine(k) ==
  [key |-> k,
   vendor_id |-> minfo[monitors[k]].vendor_id,
   product_id |-> minfo[monitors[k]].product_id,
   product_name |-> minfo[monitors[k]].product_name,
   status |-> IF removed[monitors[k]] THEN "disconnected" ELSE "watching"]

\* Lines 107-117: lock, retain, and the answer for an empty registry.
StatusRetain(c) ==
  /\ cpc[c] = "st_retain"
  /\ Quiet
  /\ mutex = 0
  /\ ~poisoned
  /\ monitors' = Evict(Purged)
  /\ hist' = Evicted(Purged)
  /\ IF Entries \ Purged = {}
     THEN Reply(c, Ok("no active tethers", NoKey, 0, {})) /\ mutex' = mutex
     ELSE Goto(c, "st_render") /\ mutex' = c /\ loc' = loc
  /\ UNCHANGED <<hwVars, flagVars, monVars, watchVars, nconn, locks, cause>>

\* Lines 119-137: one line per entry; the guard is dropped on return.
StatusRender(c) ==
  /\ cpc[c] = "st_render"
  /\ Quiet
  /\ mutex = c
  /\ Reply(c, Ok("status", NoKey, 0, {StatusLine(k) : k \in Entries}))
  /\ mutex' = 0
  /\ UNCHANGED <<hwVars, monitors, flagVars, monVars, watchVars, nconn, histVars>>

(***************************************************************************)
(* handle_tether.                                                          *)
(***************************************************************************)
\* Line 163.
FirstCheck(k) == contains_key(k)

\* Line 186.
SecondCheckNever(k) == FALSE
SecondCheck(k) == contains_key(k)

\* Lines 186-202: the registry after the second critical section.
InsertAlways(k, m) == [monitors EXCEPT ![k] = m]
InsertIfAbsent(k, m) == IF SecondCheck(k) THEN monitors ELSE [monitors EXCEPT ![k] = m]

\* Lines 179-180.
NewRemoved == FALSE
NewLockOnRemove == TRUE

\* lookup_device: what it can return for the key.
lookup_device_blind(k) ==
  {[tag |-> "found", info |-> Descriptor(DeviceKey(1, 1))],
   Err("usb enumeration failed", NoKey, "")}

lookup_device(k) ==
  (IF k \in Keys /\ present[k]
   THEN {[tag |-> "found", info |-> Descriptor(k)]}
   ELSE {Err("no device found", k, "")})
  \cup {Err("usb enumeration failed", NoKey, "")}

\* hist.tethers: how the Tether requests for a key ended, in order.
Ended(k, how) == IF k \in Keys THEN [hist EXCEPT !.tethers[k] = Append(@, how)] ELSE hist

\* The holder of the mutex after the block of lines 159-169, whose guard is
\* dropped at the closing brace or by the return inside.
HeldAfterBlock(c) == c
FreeAfterBlock(c) == 0

\* Lines 159-169.
TetherFirstCheck(c) ==
  /\ cpc[c] = "t_check"
  /\ Quiet
  /\ mutex = 0
  /\ ~poisoned
  /\ IF FirstCheck(loc[c].key)
     THEN Reply(c, Err("already tethered", loc[c].key, "")) /\ hist' = Ended(loc[c].key, "first")
     ELSE Goto(c, "t_lookup") /\ UNCHANGED <<loc, hist>>
  /\ mutex' = FreeAfterBlock(c)
  /\ UNCHANGED <<hwVars, monitors, flagVars, monVars, watchVars, nconn, locks, cause>>

\* Line 171.
TetherLookup(c) ==
  /\ cpc[c] = "t_lookup"
  /\ Quiet
  /\ \E r \in lookup_device(loc[c].key) :
       IF r.tag = "found"
       THEN Goto(c, "t_insert") /\ UNCHANGED <<loc, hist>>
       ELSE Reply(c, r) /\ hist' = Ended(loc[c].key, "lookup")
  /\ UNCHANGED <<hwVars, regVars, flagVars, monVars, watchVars, nconn, locks, cause>>

\* Lines 179-203: the second check and the insert, in one critical section.
TetherInsert(c) ==
  /\ cpc[c] = "t_insert"
  /\ Quiet
  /\ mutex = 0
  /\ ~poisoned
  /\ LET k == loc[c].key
         m == nmon + 1
     IN IF SecondCheck(k)
        THEN /\ Reply(c, Err("already tethered", k, ""))
             /\ monitors' = InsertIfAbsent(k, m)
             /\ hist' = Ended(k, "second")
             /\ UNCHANGED <<flagVars, monVars>>
        ELSE /\ m \in Mons
             /\ Goto(c, "t_spawn")
             /\ loc' = [loc EXCEPT ![c].mon = m]
             /\ monitors' = InsertIfAbsent(k, m)
             /\ hist' = [hist EXCEPT !.severe = "no"]
             /\ removed' = [removed EXCEPT ![m] = NewRemoved]
             /\ lock_on_remove' = [lock_on_remove EXCEPT ![m] = NewLockOnRemove]
             /\ minfo' = [minfo EXCEPT ![m] = [key |-> k] @@ Descriptor(k)]
             /\ nmon' = m
  /\ UNCHANGED <<hwVars, mutex, watchVars, nconn, locks, cause>>

\* Lines 205-217: the watcher thread is spawned.
TetherSpawn(c) ==
  /\ cpc[c] = "t_spawn"
  /\ Quiet
  /\ wpc' = [wpc EXCEPT ![loc[c].mon] = "start"]
  /\ Goto(c, "t_ret")
  /\ UNCHANGED <<hwVars, regVars, flagVars, monVars, registered, evq, nconn, loc, histVars>>

\* Lines 219-221: Tether returns Ok.
TetherReturn(c) ==
  /\ cpc[c] = "t_ret"
  /\ Reply(c, Ok("tether active", loc[c].key, 0, {}))
  /\ hist' = Ended(loc[c].key, "ok")
  /\ UNCHANGED <<hwVars, regVars, flagVars, monVars, watchVars, nconn, locks, cause>>

(***************************************************************************)
(* handle_severe.                                                          *)
(***************************************************************************)
\* Line 236.
SevereClearedLess == Cardinality(Entries) - 1
SevereCleared == Cardinality(Entries)

\* Line 239.
SevereLockOnRemoveKept == TRUE
SevereLockOnRemove == FALSE

\* Lines 227-236.
SevereLock(c) ==
  /\ cpc[c] = "sv_lock"
  /\ Quiet
  /\ mutex = 0
  /\ ~poisoned
  /\ IF Entries = {}
     THEN /\ Reply(c, Ok("no active tethers", NoKey, 0, {}))
          /\ mutex' = mutex
          /\ hist' = [hist EXCEPT !.severe = "returned"]
     ELSE /\ Goto(c, "sv_lor")
          /\ mutex' = c
          /\ loc' = [loc EXCEPT ![c].n = SevereCleared, ![c].todo = Entries]
          /\ hist' = [hist EXCEPT !.severe = "running"]
  /\ UNCHANGED <<hwVars, monitors, flagVars, monVars, watchVars, nconn, locks, cause>>

\* Line 239, for the next entry of the iteration.
SevereDisarm(c) ==
  /\ cpc[c] = "sv_lor"
  /\ Quiet
  /\ \E k \in loc[c].todo :
       /\ lock_on_remove' = [lock_on_remove EXCEPT ![monitors[k]] = SevereLockOnRemove]
       /\ loc' = [loc EXCEPT ![c].cur = k]
  /\ Goto(c, "sv_rem")
  /\ UNCHANGED <<hwVars, regVars, removed, monVars, watchVars, nconn, histVars>>

\* Line 240.
SevereMarkRemoved(c) ==
  /\ cpc[c] = "sv_rem"
  /\ Quiet
  /\ removed' = [removed EXCEPT ![monitors[loc[c].cur]] = TRUE]
  /\ loc' = [loc EXCEPT ![c].todo = @ \ {loc[c].cur}, ![c].cur = NoKey]
  /\ hist' = [hist EXCEPT !.severed = @ \cup {monitors[loc[c].cur]}]
  /\ Goto(c, IF loc[c].todo = {loc[c].cur} THEN "sv_clear" ELSE "sv_lor")
  /\ UNCHANGED <<hwVars, regVars, lock_on_remove, monVars, watchVars, nconn, locks, cause>>

\* Lines 250-252.
SevereClear(c) ==
  /\ cpc[c] = "sv_clear"
  /\ Quiet
  /\ monitors' = Evict(Keys)
  /\ hist' = [Evicted(Keys) EXCEPT !.severe = "returned"]
  /\ mutex' = 0
  /\ Reply(c, Ok("cleared", NoKey, loc[c].n, {}))
  /\ UNCHANGED <<hwVars, flagVars, monVars, watchVars, nconn, locks, cause>>

(***************************************************************************)
(* monitor_device: the watcher thread of instance m.                       *)
(***************************************************************************)
\* Lines 305-331, failing: Context::new or register_callback returns Err.
WatcherStartError(m) ==
  /\ wpc[m] = "start"
  /\ Quiet
  /\ wpc' = [wpc EXCEPT ![m] = "cleanup"]
  /\ UNCHANGED <<hwVars, regVars, flagVars, monVars, registered, evq, connVars, histVars>>

\* Lines 305-333: the context is created and the callback registered.
WatcherStart(m) ==
  /\ wpc[m] = "start"
  /\ Quiet
  /\ wpc' = [wpc EXCEPT ![m] = "poll"]
  /\ registered' = [registered EXCEPT ![m] = TRUE]
  /\ UNCHANGED <<hwVars, regVars, flagVars, monVars, evq, connVars, histVars>>

\* Line 335, the loop condition; on exit line 342 drops the registration.
LoopCheck(m) ==
  /\ wpc[m] = "poll"
  /\ Quiet
  /\ IF removed[m]
     THEN /\ wpc' = [wpc EXCEPT ![m] = "chk"]
          /\ registered' = [registered EXCEPT ![m] = FALSE]
          /\ evq' = [evq EXCEPT ![m] = <<>>]
     ELSE /\ wpc' = [wpc EXCEPT ![m] = "pump"]
          /\ UNCHANGED <<registered, evq>>
  /\ UNCHANGED <<hwVars, regVars, flagVars, monVars, connVars, histVars>>

\* SelectedDeviceWatcher: the callback acts only on its own bus and address
\* (lines 490 and 504).
MatchesAny(m, e) == TRUE
Matches(m, e) == e.key.bus = minfo[m].key.bus /\ e.key.address = minfo[m].key.address

\* device_left, line 513, and device_arrived, line 499: the value stored.
LeftStoresNothing == FALSE
LeftStores == TRUE
ArrivedStoresTrue == TRUE
ArrivedStores == FALSE

\* Line 336: handle_events runs the callback for the next pending event.
DeliverEvent(m) ==
  /\ wpc[m] = "pump"
  /\ Quiet
  /\ evq[m] # <<>>
  /\ LET e == Head(evq[m]) IN
       /\ evq' = [evq EXCEPT ![m] = Tail(@)]
       /\ IF Matches(m, e)
          THEN /\ removed' = [removed EXCEPT ![m] =
                                IF e.type = "left" THEN LeftStores ELSE ArrivedStores]
               /\ cause' = [cause EXCEPT ![m] = IF e.type = "left"
                                                  THEN [id |-> e.id, left |-> TRUE]
                                                  ELSE [@ EXCEPT !.id = 0]]
          ELSE UNCHANGED <<removed, cause>>
       /\ hist' = [hist EXCEPT !.leftSeen = @ \/ e.type = "left"]
  /\ UNCHANGED <<hwVars, regVars, lock_on_remove, monVars, wpc, registered, connVars, locks>>

\* Line 336: handle_events returns Ok after its events or its timeout.
PumpReturn(m) ==
  /\ wpc[m] = "pump"
  /\ Quiet
  /\ wpc' = [wpc EXCEPT ![m] = "poll"]
  /\ UNCHANGED <<hwVars, regVars, flagVars, monVars, registered, evq, connVars, histVars>>

\* Lines 336-342: handle_events returns Err; break, then the registration
\* is dropped.
PumpError(m) ==
  /\ wpc[m] = "pump"
  /\ Quiet
  /\ wpc' = [wpc EXCEPT ![m] = "chk"]
  /\ registered' = [registered EXCEPT ![m] = FALSE]
  /\ evq' = [evq EXCEPT ![m] = <<>>]
  /\ hist' = [hist EXCEPT !.broke = @ \cup {m}]
  /\ UNCHANGED <<hwVars, regVars, flagVars, monVars, connVars, locks, cause>>

\* Line 344.
CheckRemoved(m) ==
  /\ wpc[m] = "chk"
  /\ Quiet
  /\ wpc' = [wpc EXCEPT ![m] = IF removed[m] THEN "chklock" ELSE "cleanup"]
  /\ hist' = [hist EXCEPT !.broke = IF removed[m] THEN @ ELSE @ \ {m}]
  /\ UNCHANGED <<hwVars, regVars, flagVars, monVars, registered, evq, connVars, locks, cause>>

\* Lines 345-347: lock_all_sessions is called if lock_on_remove is set.
CheckLockOnRemove(m) ==
  /\ wpc[m] = "chklock"
  /\ Quiet
  /\ IF lock_on_remove[m]
     THEN /\ wpc' = [wpc EXCEPT ![m] = "locking"]
          /\ locks' = [locks EXCEPT ![m] = @ + 1]
          /\ hist' = [hist EXCEPT !.locksFor[cause[m].id] = @ + 1, !.broke = @ \ {m}]
     ELSE /\ wpc' = [wpc EXCEPT ![m] = "cleanup"]
          /\ hist' = [hist EXCEPT !.broke = @ \ {m}]
          /\ UNCHANGED locks
  /\ UNCHANGED <<hwVars, regVars, flagVars, monVars, registered, evq, connVars, cause>>

\* Lines 347-349: lock_all_sessions returns.
LockReturn(m) ==
  /\ wpc[m] = "locking"
  /\ Quiet
  /\ wpc' = [wpc EXCEPT ![m] = "cleanup"]
  /\ UNCHANGED <<hwVars, regVars, flagVars, monVars, registered, evq, connVars, histVars>>

(***************************************************************************)
(* lock_all_sessions (lines 255-292), step by step.  A line of loginctl's  *)
(* output is the sequence of its whitespace-separated words.               *)
(***************************************************************************)
Legend == <<"SESSION", "UID", "USER">>

\* What `loginctl list-sessions` may print: nothing, the legend alone, one or
\* two sessions, a blank line between sessions, and the blank line and the
\* count that loginctl prints after the sessions.
Outputs ==
  { <<>>,
    <<Legend>>,
    <<Legend, <<"c1", "1000", "user">>>>,
    <<Legend, <<"c1", "1000", "user">>, <<"c2", "0", "root">>>>,
    <<Legend, <<"c1", "1000", "user">>, <<>>, <<"c2", "0", "root">>>>,
    <<Legend, <<"c1", "1000", "user">>, <<>>, <<"1", "sessions", "listed.">>>> }

\* How running a loginctl command can end: it could not be run, it exited
\* with a status other than zero, it exited with status zero.
Outcomes == {"spawn_err", "exit_nonzero", "exit_zero"}

\* ExitStatus::success (lines 261 and 278).
success_any(status) == TRUE
success(status) == status = "exit_zero"

\* No call of lock_all_sessions yet.
NoRun == [pc |-> "none", list |-> "none", out |-> <<>>, i |-> 0,
          asked |-> <<>>, results |-> <<>>, ret |-> "none"]

\* Lines 256-268: list-sessions is run; `?` returns its spawn error, line 262
\* returns on a failed exit status, otherwise the loop starts after the first
\* line (skip(1)).
ListSessions(m) ==
  /\ wpc[m] = "locking"
  /\ Quiet
  /\ lk[m].pc = "none"
  /\ \E status \in Outcomes, out \in Outputs :
       lk' = [lk EXCEPT ![m] =
                IF status = "spawn_err"
                THEN [@ EXCEPT !.pc = "ret", !.list = status, !.ret = "Err"]
                ELSE IF ~success(status)
                THEN [@ EXCEPT !.pc = "ret", !.list = status, !.out = out, !.ret = "Err"]
                ELSE [@ EXCEPT !.pc = "loop", !.list = status, !.out = out, !.i = 2]]
  /\ UNCHANGED <<handler, hotplug, startup, poisoned, present, nhw, regVars, flagVars, monVars, watchVars,
                 connVars, histVars>>

\* Lines 269-288, one iteration: a line without a word is passed over; for
\* any other line lock-session is run with its first word, and whatever
\* comes of it is logged.  Line 291 returns Ok after the last line.
LockSession(m) ==
  /\ wpc[m] = "locking"
  /\ Quiet
  /\ lk[m].pc = "loop"
  /\ IF lk[m].i > Len(lk[m].out)
     THEN lk' = [lk EXCEPT ![m].pc = "ret", ![m].ret = "Ok"]
     ELSE LET line == lk[m].out[lk[m].i] IN
          IF line = <<>>
          THEN lk' = [lk EXCEPT ![m].i = @ + 1]
          ELSE \E status \in Outcomes :
                 lk' = [lk EXCEPT ![m].i = @ + 1,
                                  ![m].asked = Append(@, line[1]),
                                  ![m].results = Append(@, status)]
  /\ UNCHANGED <<handler, hotplug, startup, poisoned, present, nhw, regVars, flagVars, monVars, watchVars,
                 connVars, histVars>>

\* Lines 347-349: monitor_device takes the result, logs an Err, and goes on
\* to remove_monitor.
LockFinish(m) ==
  /\ wpc[m] = "locking"
  /\ Quiet
  /\ lk[m].pc = "ret"
  /\ lk' = [lk EXCEPT ![m].pc = "done"]
  /\ wpc' = [wpc EXCEPT ![m] = "cleanup"]
  /\ UNCHANGED <<handler, hotplug, startup, poisoned, present, nhw, regVars, flagVars, monVars, registered, evq,
                 connVars, histVars>>

\* state.lock() of a handler (lines 107-109, 160-162, 183-185, 227-229) on
\* a poisoned mutex: map_err drops the guard and the handler returns Err.
LockPoisoned(c) ==
  /\ cpc[c] \in {"st_retain", "t_check", "t_insert", "sv_lock"}
  /\ Quiet
  /\ mutex = 0
  /\ poisoned
  /\ Reply(c, Err("failed to acquire daemon state", NoKey, ""))
  /\ hist' = IF cpc[c] \in {"t_check", "t_insert"} THEN Ended(loc[c].key, "poisoned") ELSE hist
  /\ UNCHANGED <<hwVars, regVars, flagVars, monVars, watchVars, nconn, locks, cause>>

\* The worker in handle_severe panics while it holds the guard, in info! of
\* lines 241-247 (the subscriber cannot write): the guard is dropped by the
\* unwinding and marks the mutex poisoned, and the stream is dropped with
\* nothing written.
SeverePanic(c) ==
  /\ cpc[c] \in {"sv_lor", "sv_clear"}
  /\ Quiet
  /\ mutex = c
  /\ loc[c].todo # Entries
  /\ poisoned' = TRUE
  /\ mutex' = 0
  /\ Close(c)
  /\ UNCHANGED <<handler, hotplug, startup, present, nhw, lk, monitors, flagVars, monVars,
                 watchVars, nconn, histVars>>

\* The match of lines 359-367: the guard is taken from Ok and from Err alike.
GuardOnlyFromOk(p) == ~p
GuardFromEither(p) == TRUE

\* remove_monitor (lines 358-368), called at lines 309, 328 and 355.
remove_monitor(m) ==
  /\ wpc[m] = "cleanup"
  /\ Quiet
  /\ mutex = 0
  /\ GuardFromEither(poisoned)
  /\ monitors' = Evict({minfo[m].key})
  /\ hist' = Evicted({minfo[m].key})
  /\ wpc' = [wpc EXCEPT ![m] = "done"]
  /\ UNCHANGED <<hwVars, mutex, flagVars, monVars, registered, evq, connVars, locks, cause>>

(***************************************************************************)
(* The text of a response, as a sequence of pieces.                        *)
(***************************************************************************)
\* format!("{:03}") and format!("{:04x}") of the numbers that occur.
Pad3(n) == CASE n = 0 -> "000" [] n = 1 -> "001" [] n = 2 -> "002" [] n = 255 -> "255"
            [] OTHER -> "???"

Hex4(n) == CASE n = 1 -> "0001" [] OTHER -> "????"

\* format_device_summary
format_device_summary(key, vendor_id, product_id, product_name) ==
  <<"bus ", Pad3(key.bus), " address ", Pad3(key.address), " ",
    Hex4(vendor_id), ":", Hex4(product_id)>>
  \o (IF product_name # "None" THEN <<" - ", product_name>> ELSE <<>>)

\* handle_status, lines 127-134: one line.
LineText(l) ==
  format_device_summary(l.key, l.vendor_id, l.product_id, l.product_name)
  \o <<" [", l.status, "]">>

\* lines.join("\n"), in the order the map iterates.
RECURSIVE JoinLines(_)
JoinLines(ls) ==
  IF ls = {} THEN <<>>
  ELSE LET l == CHOOSE x \in ls : TRUE
       IN IF ls = {l} THEN LineText(l) ELSE LineText(l) \o <<"\n">> \o JoinLines(ls \ {l})

\* The String inside the handler's Ok or Err.
Message(r) ==
  CASE r.msg \in {"unknown command", "unexpected argument", "invalid bus number",
                  "invalid device id"} -> <<r.msg, ": ", r.word>>
    [] r.msg = "hotplug not available" ->
         <<"libusb hotplug support is not available on this system">>
    [] r.msg = "already tethered" ->
         <<"device ", Pad3(r.key.bus), ":", Pad3(r.key.address), " is already tethered">>
    [] r.msg = "no device found" ->
         <<"no device found on bus ", Pad3(r.key.bus), " address ", Pad3(r.key.address)>>
    [] r.msg = "cleared" -> <<"cleared ", ToString(r.n), " tether(s)">>
    [] r.msg = "tether active" ->
         <<"tether active for ">>
         \o format_device_summary(r.key, Descriptor(r.key).vendor_id,
                                  Descriptor(r.key).product_id, Descriptor(r.key).product_name)
    [] r.msg = "status" -> JoinLines(r.lines)
    [] OTHER -> <<r.msg>>

\* The bytes on the wire: format!("ERR: {err}") or the body (lines 77-85).
Bytes(w) == IF w.body.tag = "none" THEN <<>>
            ELSE (IF w.prefix = "" THEN <<>> ELSE <<w.prefix>>) \o Message(w.body)

\* What the client returns for them (client, line 151): the trimmed text.
ClientReceives(w) == Trim(Bytes(w))

(***************************************************************************)
(* The client: send_ipc_message_with_path (lib.rs 143-152).                *)
(***************************************************************************)
\* What the call returns: Ok with a text, or Err.
IoError == [tag |-> "err", text |-> <<>>]
OkText(t) == [tag |-> "ok", text |-> t]

\* Line 144: connect returns, and the listener accepts the connection.
Connect(p, r) ==
  /\ nconn < MaxClients
  /\ Accepted(p, r)
  /\ client' = [client EXCEPT ![nconn + 1] = [NoClient EXCEPT !.pc = "connected", !.uid = p]]

\* Line 145: write_all; it fails (EPIPE) when the worker has already dropped
\* the stream, and the ? returns the error.
ClientWrite(c) ==
  /\ client[c].pc = "connected"
  /\ client' = [client EXCEPT ![c] =
                  IF cpc[c] = "closed" THEN [@ EXCEPT !.pc = "returned", !.res = IoError]
                  ELSE [@ EXCEPT !.pc = "written"]]
  /\ UNCHANGED <<hwVars, regVars, flagVars, monVars, watchVars, nconn, cpc, peer, req, loc,
                 resp, histVars>>

\* Line 146: shutdown(Write), its result ignored.
ClientShutdown(c) ==
  /\ client[c].pc = "written"
  /\ client' = [client EXCEPT ![c].pc = "shut"]
  /\ UNCHANGED <<hwVars, regVars, flagVars, monVars, watchVars, nconn, cpc, peer, req, loc,
                 resp, histVars>>

\* read_to_end: Err when the stream was reset, else all that was received.
Received(end, t) == IF end = "reset" THEN IoError ELSE OkText(t)

\* Lines 148-151: read_to_end returns when the worker has dropped the
\* stream: Err when a read met the reset, else the bytes, which are trimmed.
ClientReadToEnd(c) ==
  /\ client[c].pc = "shut"
  /\ client[c].end # "open"
  /\ client' = [client EXCEPT ![c].pc = "returned",
                              ![c].res = Received(client[c].end, ClientReceives(client[c].inbox))]
  /\ UNCHANGED <<hwVars, regVars, flagVars, monVars, watchVars, nconn, cpc, peer, req, loc,
                 resp, histVars>>

Client(c) ==
  \/ ClientWrite(c)
  \/ ClientShutdown(c)
  \/ ClientReadToEnd(c)

(***************************************************************************)
(* The daemon.                                                             *)
(***************************************************************************)
\* Nothing has happened but the platform's answer to has_hotplug.
Idle ==
  /\ hotplug \in BOOLEAN
  /\ present = [k \in Keys |-> TRUE]
  /\ nhw = 0
  /\ lk = [m \in Mons |-> NoRun]
  /\ monitors = [k \in Keys |-> 0]
  /\ mutex = 0
  /\ poisoned = FALSE
  /\ removed = [m \in Mons |-> FALSE]
  /\ lock_on_remove = [m \in Mons |-> FALSE]
  /\ minfo = [m \in Mons |-> NoInfo]
  /\ nmon = 0
  /\ wpc = [m \in Mons |-> "none"]
  /\ registered = [m \in Mons |-> FALSE]
  /\ evq = [m \in Mons |-> <<>>]
  /\ nconn = 0
  /\ cpc = [c \in Conns |-> "none"]
  /\ peer = [c \in Conns |-> "same"]
  /\ req = [c \in Conns |-> <<>>]
  /\ loc = [c \in Conns |-> NoLoc]
  /\ resp = [c \in Conns |-> Nothing]
  /\ client = [c \in Conns |-> NoClient]
  /\ locks = [m \in Mons |-> 0]
  /\ cause = [m \in Mons |-> [id |-> 0, left |-> FALSE]]
  /\ hist = [evicted |-> {}, leftSeen |-> FALSE, severe |-> "no", rejected |-> 0,
             late |-> {}, severed |-> {}, broke |-> {}, tethers |-> [k \in Keys |-> <<>>],
             locksFor |-> [d \in 0..(MaxHw + MaxHwOneKey) |-> 0]]

\* start_ipc_server_once_with_path, lib.rs 23-27: handle_client has returned,
\* the socket file is removed and the call returns.
ServerOnceReturn ==
  /\ handler = "status_ok"
  /\ startup.pc = "serve"
  /\ nconn = 1 /\ cpc[1] = "closed"
  /\ startup' = [startup EXCEPT !.pc = "returned", !.path = "absent"]
  /\ UNCHANGED <<handler, hotplug, present, nhw, lk, regVars, poisoned, flagVars, monVars,
                 watchVars, connVars, histVars>>

\* lib.rs 23: accept() returns Err; nothing is handled, the socket file is
\* removed and the call returns.
AcceptErrorOnce ==
  /\ handler = "status_ok"
  /\ startup.pc = "serve"
  /\ nconn = 0
  /\ startup' = [startup EXCEPT !.pc = "returned", !.path = "absent"]
  /\ UNCHANGED <<handler, hotplug, present, nhw, lk, regVars, poisoned, flagVars, monVars,
                 watchVars, connVars, histVars>>

\* The state when the listener starts accepting.
Boot == startup = Listening /\ Idle

\* deadmand: main starts the server with handle_command.
Init == handler = "handle_command" /\ Boot

\* Either deadmand, or the single-shot server of the IPC tests, started with
\* the closure that answers "OK" to "status".
InitRpc == handler \in {"handle_command", "status_ok"} /\ Boot

\* The steps of a worker that touch nothing but its own connection.
Transport(c) ==
  \/ Authenticate(c)
  \/ Dispatch(c)
  \/ ReadError(c)
  \/ Drop(c)

Handler(c) ==
  \/ StatusRetain(c)
  \/ StatusRender(c)
  \/ TetherFirstCheck(c)
  \/ TetherLookup(c)
  \/ TetherInsert(c)
  \/ TetherSpawn(c)
  \/ TetherReturn(c)
  \/ SevereLock(c)
  \/ SevereDisarm(c)
  \/ SevereMarkRemoved(c)
  \/ SevereClear(c)

Watcher(m) ==
  \/ WatcherStartError(m)
  \/ WatcherStart(m)
  \/ LoopCheck(m)
  \/ DeliverEvent(m)
  \/ PumpReturn(m)
  \/ PumpError(m)
  \/ CheckRemoved(m)
  \/ CheckLockOnRemove(m)
  \/ LockReturn(m)
  \/ remove_monitor(m)

\* The daemon among clients with credentials ps sending requests rs, and
\* devices coming and going at the keys ks, lim times at most.
NextIn(ps, rs, ks, lim) ==
  \/ \E p \in ps, r \in rs : Accept(p, r)
  \/ \E c \in Conns : Transport(c) \/ Handler(c)
  \/ \E m \in Mons : Watcher(m)
  \/ \E k \in ks : Depart(k, lim) \/ Arrive(k, lim)

Next == NextIn(Peers, Requests, Keys, MaxHw)

Spec == Init /\ [][Next]_vars

\* One attachment point, and every client the daemon's own user.
NextOneKey == NextIn({"same"}, RequestsOneKey, {DeviceKey(1, 1)}, MaxHwOneKey)

SpecOneKey == Init /\ [][NextOneKey]_vars

\* The transport and the command parser: one attachment point, clients of the
\* daemon's own user, and malformed requests as well as well-formed ones.
NextRpc ==
  \/ NextIn(Peers, RequestsProtocol, {DeviceKey(1, 1)}, MaxHw)
  \/ ServerOnceReturn
  \/ AcceptErrorOnce

SpecRpc == InitRpc /\ [][NextRpc]_vars

\* The daemon with one device that is tethered and then unplugged for good:
\* no Severe, no reattach, and neither the stream nor libusb fails.  Every
\* watcher thread keeps running, and handle_events delivers the events
\* pending in its context.
WatcherNoFault(m) ==
  \/ WatcherStart(m)
  \/ LoopCheck(m)
  \/ DeliverEvent(m)
  \/ PumpReturn(m)
  \/ CheckRemoved(m)
  \/ CheckLockOnRemove(m)
  \/ LockReturn(m)
  \/ remove_monitor(m)

WorkerNoFault(c) ==
  \/ Authenticate(c)
  \/ Dispatch(c)
  \/ Drop(c)
  \/ StatusRetain(c)
  \/ StatusRender(c)
  \/ TetherFirstCheck(c)
  \/ TetherLookup(c)
  \/ TetherInsert(c)
  \/ TetherSpawn(c)
  \/ TetherReturn(c)

NextNoFault ==
  \/ \E r \in RequestsNoSevere : Accept("same", r)
  \/ \E c \in Conns : WorkerNoFault(c)
  \/ \E m \in Mons : WatcherNoFault(m)
  \/ Depart(DeviceKey(1, 1), MaxHwNoFault)

SpecNoFault ==
  /\ Init
  /\ [][NextNoFault]_vars
  /\ \A c \in Conns : WF_vars(WorkerNoFault(c))
  /\ \A m \in Mons : WF_vars(WatcherNoFault(m)) /\ SF_vars(DeliverEvent(m))

\* The same daemon, with lock_all_sessions followed command by command and
\* the session manager answering in every way.
WatcherLock(m) ==
  \/ WatcherStart(m)
  \/ LoopCheck(m)
  \/ DeliverEvent(m)
  \/ PumpReturn(m)
  \/ CheckRemoved(m)
  \/ CheckLockOnRemove(m)
  \/ ListSessions(m)
  \/ LockSession(m)
  \/ LockFinish(m)
  \/ remove_monitor(m)

NextLock ==
  \/ \E r \in RequestsNoSevere : Accept("same", r)
  \/ \E c \in Conns : WorkerNoFault(c)
  \/ \E m \in Mons : WatcherLock(m)
  \/ Depart(DeviceKey(1, 1), MaxHwNoFault)

SpecLock == Init /\ [][NextLock]_vars

\* The daemon with one device that is tethered, unplugged and plugged in
\* again while clients send Tether and Severe; nothing fails, and every
\* thread keeps running.
WorkerSevere(c) ==
  \/ Authenticate(c)
  \/ Dispatch(c)
  \/ Drop(c)
  \/ TetherFirstCheck(c)
  \/ TetherLookup(c)
  \/ TetherInsert(c)
  \/ TetherSpawn(c)
  \/ TetherReturn(c)
  \/ SevereLock(c)
  \/ SevereDisarm(c)
  \/ SevereMarkRemoved(c)
  \/ SevereClear(c)

NextSevere ==
  \/ \E r \in RequestsSevere : Accept("same", r)
  \/ \E c \in Conns : WorkerSevere(c)
  \/ \E m \in Mons : WatcherNoFault(m)
  \/ Depart(DeviceKey(1, 1), MaxHw)
  \/ Arrive(DeviceKey(1, 1), MaxHw)

SpecSevere ==
  /\ Init
  /\ [][NextSevere]_vars
  /\ \A c \in Conns : WF_vars(WorkerSevere(c))
  /\ \A m \in Mons : WF_vars(WatcherNoFault(m)) /\ SF_vars(DeliverEvent(m))

\* The daemon with two devices, one of which may be unplugged, and a worker
\* that may panic in handle_severe.
NextPoison ==
  \/ \E r \in RequestsTwoKeys : Accept("same", r)
  \/ \E c \in Conns : Authenticate(c) \/ Dispatch(c) \/ Drop(c)
  \/ \E c \in Conns : Handler(c) \/ LockPoisoned(c) \/ SeverePanic(c)
  \/ \E m \in Mons : WatcherNoFault(m)
  \/ Depart(DeviceKey(1, 1), MaxHwNoFault)

SpecPoison == Init /\ [][NextPoison]_vars

\* The daemon with one device that may be unplugged, serving Status, Tether
\* and Severe; nothing fails or panics, and every thread keeps running.
WorkerFair(c) ==
  \/ Authenticate(c)
  \/ Dispatch(c)
  \/ Drop(c)
  \/ Handler(c)

NextFair ==
  \/ \E r \in RequestsOneKey : Accept("same", r)
  \/ \E c \in Conns : WorkerFair(c)
  \/ \E m \in Mons : WatcherNoFault(m)
  \/ Depart(DeviceKey(1, 1), MaxHwNoFault)

SpecFair ==
  /\ Init
  /\ [][NextFair]_vars
  /\ \A c \in Conns : WF_vars(WorkerFair(c))
  /\ \A m \in Mons : WF_vars(WatcherNoFault(m))

\* The daemon with one device, and Tether requests with every kind of field.
NextParse == NextIn({"same"}, RequestsParse, {DeviceKey(1, 1)}, MaxHw)

SpecParse == Init /\ [][NextParse]_vars

\* The daemon and the clients of the library, of its own user and of
\* another, with requests that fit the buffer and one that does not; the
\* read and the write of the stream do not fail, no handler panics, and every
\* thread keeps running.
NextClient ==
  \/ \E p \in {"same", "other"}, r \in RequestsOneKey \cup RequestsLong : Connect(p, r)
  \/ \E c \in Conns : Client(c) \/ WorkerFair(c)
  \/ \E m \in Mons : WatcherNoFault(m)
  \/ Depart(DeviceKey(1, 1), MaxHwNoFault)

SpecClient ==
  /\ Init
  /\ [][NextClient]_vars
  /\ \A c \in Conns : WF_vars(Client(c) \/ WorkerFair(c))

\* deadmand from the first line of main, started by root or by another user,
\* with anything at the socket path.
InitStart ==
  /\ handler = "handle_command"
  /\ startup \in {[pc |-> "main", euid |-> u, found |-> f, path |-> f] :
                    u \in {RootUid, UserUid}, f \in Found}
  /\ Idle

NextStart ==
  \/ check_privileges
  \/ RemoveFile
  \/ Bind
  \/ NextNoFault

SpecStart == InitStart /\ [][NextStart]_vars

(***************************************************************************)
(* Properties.                                                             *)
(***************************************************************************)
TetherPcs == {"t_check", "t_lookup", "t_insert", "t_spawn", "t_ret"}

\* The workers running Tether for key k.
Tethering(k) == {c \in Conns : cpc[c] \in TetherPcs /\ loc[c].key = k}

\* The instances built for key k.
InstancesOf(k) == {m \in Mons : minfo[m].key = k}

\* Occurrences of x in seq.
Count(seq, x) == Cardinality({i \in 1..Len(seq) : seq[i] = x})

\* While no entry of k has been evicted: at most one Tether for k succeeded and
\* at most one instance and one watcher exist for k; once the racing requests
\* have all returned, none with a lookup error, exactly one succeeded and the
\* others got "already tethered".
C1_OneWinner ==
  \A k \in Keys :
    k \notin hist.evicted =>
      /\ Count(hist.tethers[k], "ok") <= 1
      /\ Cardinality(InstancesOf(k)) <= 1
      /\ Cardinality({m \in InstancesOf(k) : wpc[m] # "none"}) <= 1
      /\ (Tethering(k) = {} /\ hist.tethers[k] # <<>> /\ Count(hist.tethers[k], "lookup") = 0)
           => /\ Count(hist.tethers[k], "ok") = 1
              /\ Cardinality({m \in InstancesOf(k) : wpc[m] # "none"}) = 1
              /\ \A i \in 1..Len(hist.tethers[k]) :
                    hist.tethers[k][i] \in {"ok", "first", "second"}

\* No step replaces the entry of a key by another instance.
C1_NoOverwrite ==
  \A k \in Keys : monitors[k] # 0 => monitors'[k] \in {0, monitors[k]}

\* C1: of the Tether requests for one key that race each other while no entry
\* of the key is evicted and enumeration finds the device, exactly one returns
\* success and every other one returns "already tethered"; one instance, and
\* so one watcher, exists for them; and no insert ever replaces an entry.
C1_Theorem == []C1_OneWinner /\ [][C1_NoOverwrite]_vars

\* Two Tether requests for one key both passed the first check; the loser
\* was refused at the second check before the winner returned.
C1_Witness ==
  \E k \in Keys : k \notin hist.evicted /\ hist.tethers[k] = <<"second", "ok">>

\* No departure delivered, no call of lock_all_sessions: for the daemon as a
\* whole and for each watcher and the departures of its own device.
C2_NoLockWithoutDeparture ==
  /\ ~hist.leftSeen => \A m \in Mons : locks[m] = 0
  /\ \A m \in Mons : ~cause[m].left => locks[m] = 0

\* A call of lock_all_sessions is a step of a watcher at line 347.
C2_OnlyWatchersLock ==
  \A m \in Mons : locks'[m] # locks[m] => wpc[m] = "chklock" /\ cpc' = cpc /\ mutex' = mutex

\* C2: as long as no departure event has been delivered to a watcher, no
\* watcher has called lock_all_sessions, however Severe interleaves with the
\* poll loops; a watcher that was never told of a departure of its own device
\* has not called it either; and the call is a step of a watcher at line 347,
\* never a step of a worker running Severe.
C2_Theorem == []C2_NoLockWithoutDeparture /\ [][C2_OnlyWatchersLock]_vars

\* Severe stopped a watcher: it left its loop on the removed flag Severe
\* set, with no departure delivered to anyone, and finished without locking.
C2_Witness ==
  \E m \in Mons :
    /\ wpc[m] = "done" /\ removed[m] /\ ~lock_on_remove[m]
    /\ ~hist.leftSeen /\ locks[m] = 0 /\ hist.severe = "returned"

\* The watcher of instance m is past the reads of lines 344-345.
PastLockDecision(m) == wpc[m] \in {"locking", "cleanup", "done"}

\* C3, as stated: once a departure of its device was delivered to a watcher
\* whose lock_on_remove is true, the removed flag stays set until the watcher
\* decides, and the watcher then calls lock_all_sessions exactly once.
C3_Original ==
  \A m \in Mons :
    (cause[m].left /\ lock_on_remove[m]) =>
      IF PastLockDecision(m) THEN locks[m] = 1 ELSE removed[m] /\ locks[m] = 0

\* C3, amended: a delivered departure of the watcher's device sets the
\* removed flag, which stays set unless an arrival at the same bus and address
\* is delivered before the watcher leaves its loop; for a departure not so
\* cancelled, with lock_on_remove true, the watcher calls lock_all_sessions
\* exactly once; no watcher calls it more than once, or for anything but an
\* uncancelled departure.
C3_Amended ==
  \A m \in Mons :
    /\ cause[m].id # 0 => removed[m]
    /\ locks[m] <= 1
    /\ locks[m] = 1 => cause[m].id # 0 /\ PastLockDecision(m)
    /\ (cause[m].id # 0 /\ lock_on_remove[m]) =>
         IF PastLockDecision(m) THEN locks[m] = 1 ELSE locks[m] = 0

\* A watcher locked once for a departure and finished.
C3_Witness ==
  \E m \in Mons :
    /\ wpc[m] = "done" /\ locks[m] = 1 /\ lock_on_remove[m]
    /\ cause[m].id # 0 /\ removed[m] /\ ~present[minfo[m].key]

\* A connection being read or handled, or carrying response bytes, is a
\* connection of the daemon's own user.
C4_OnlySameUserServed ==
  \A c \in Conns :
    /\ cpc[c] \notin {"none", "auth", "closed"} => peer[c] = "same"
    /\ resp[c] # Nothing => peer[c] = "same"

\* The worker of any other peer only closes its connection.
C4_RejectedUntouched ==
  \A c \in Conns :
    (cpc[c] = "auth" /\ peer[c] # "same") =>
      /\ cpc'[c] \in {"auth", "closed"}
      /\ resp'[c] = Nothing
      /\ UNCHANGED <<monitors, mutex, removed, lock_on_remove, minfo, nmon, wpc,
                     registered, locks>>

\* C4: a worker gets past line 69 only for a peer with the daemon's uid: a
\* connection whose request is being read or handled, or that carries response
\* bytes, is such a peer's.  The worker of any other peer (another uid, or
\* unreadable credentials) goes from the accept straight to the close of the
\* connection, with nothing written, and that step changes neither the
\* registry, nor a flag, nor a watcher.
C4_Theorem == []C4_OnlySameUserServed /\ [][C4_RejectedUntouched]_vars

\* A peer was turned away in a run whose registry holds an entry, and no
\* entry was ever evicted.
C4_Witness ==
  /\ hist.rejected >= 1
  /\ Entries # {}
  /\ \E c \in Conns : cpc[c] = "closed"
  /\ hist.evicted = {}

SeverePcs == {"sv_lor", "sv_rem", "sv_clear"}

\* While Severe iterates it holds the mutex, and its count is the number of
\* entries.
C5_CountFrozen ==
  \A c \in Conns :
    cpc[c] \in SeverePcs =>
      mutex = c /\ loc[c].n = Cardinality(Entries) /\ loc[c].n >= 1

\* Severe counts the entries when it is invoked, and returns that count when
\* it has evicted them.
C5_SevereReturnsCount ==
  \A c \in Conns :
    /\ (cpc[c] = "sv_lock" /\ cpc'[c] = "sv_lor") => loc'[c].n = Cardinality(Entries)
    /\ (cpc[c] = "sv_clear" /\ cpc'[c] = "replied") =>
         /\ resp'[c] = Response(Ok("cleared", NoKey, Cardinality(Entries), {}))
         /\ Entries' = {}
         /\ hist'.evicted = hist.evicted \cup Entries

\* Status after a Severe that returned, with no insert since.
C5_StatusAfterSevere ==
  \A c \in Conns :
    (cpc[c] = "st_retain" /\ cpc'[c] # "st_retain" /\ hist.severe = "returned") =>
      /\ cpc'[c] = "replied"
      /\ resp'[c] = Response(Ok("no active tethers", NoKey, 0, {}))

C6_ReturnStep ==
  \A c \in Conns :
    LET k == loc[c].key
        m == loc[c].mon
    IN (/\ cpc[c] = "t_ret" /\ cpc'[c] = "replied"
        /\ lock_on_remove[m] /\ ~cause[m].left /\ wpc[m] = "start")
       => monitors'[k] = m /\ ~removed'[m]

\* C6: when Tether returns success for key k, the registry holds the entry
\* it inserted for k, with removed=false.  Stated for the returns that no
\* Severe and no departure raced: the entry was not disarmed, its watcher has
\* been delivered no departure and has not yet run.
C6_EntryAtReturn == [][C6_ReturnStep]_vars

\* A step of a worker up to the insert of Tether.
C7_ErrorStep ==
  \A c \in Conns :
    (cpc[c] \in {"read", "t_check", "t_lookup", "t_insert"} /\ cpc'[c] # cpc[c]) =>
      /\ cpc'[c] # "t_spawn" =>
           UNCHANGED <<monitors, mutex, removed, lock_on_remove, minfo, nmon, wpc,
                       registered, evq, locks>>
      /\ (cpc[c] # "read" /\ cpc'[c] \notin TetherPcs) =>
           /\ cpc'[c] = "replied" /\ resp'[c].prefix = "ERR: "
           /\ resp'[c].body.msg \in {"already tethered", "no device found",
                                      "usb enumeration failed"}
      /\ (cpc[c] = "read" /\ handle_command(Trim(req[c])).op = "tether"
                          /\ cpc'[c] \notin TetherPcs) =>
           \/ cpc'[c] = "closed" /\ resp'[c] = Nothing
           \/ /\ cpc'[c] = "replied" /\ resp'[c].prefix = "ERR: "
              /\ resp'[c].body.msg \in {"hotplug not available", "invalid bus number",
                                         "invalid device id"}

\* C7: a step of a Tether request other than its insert and its spawn, and so
\* every step of a Tether request that returns an error (hotplug unsupported,
\* invalid bus or address, already tethered at the first or the second check,
\* no device found, enumeration failed), leaves the registry, the flags of
\* every instance, the instances and the watchers as they were; and the only
\* ways out of those positions are the next position or an error reply.
C7_Theorem == [][C7_ErrorStep]_vars

\* A Tether lost the race at the second check; the winner's entry is in the
\* registry, untouched.
C7_Witness ==
  \E c \in Conns :
    /\ cpc[c] = "replied" /\ resp[c] = Response(Err("already tethered", resp[c].body.key, ""))
    /\ LET k == resp[c].body.key
       IN /\ k \in Keys /\ hist.tethers[k] = <<"second">> /\ nmon = 1
          /\ monitors[k] = 1 /\ ~removed[1] /\ lock_on_remove[1]

\* C8: a device that departs after Tether returned success for its key (the
\* instances in hist.late at the departure), and that is neither reattached
\* nor disarmed by Severe, leads its watcher to call lock_all_sessions.
C8_NoMissedRemoval ==
  \A m \in Mons : [](m \in hist.late => <>(locks[m] >= 1))

\* C9: one departure of a device causes at most one call of
\* lock_all_sessions, counted over all watchers.
C9_NoDoubleLock ==
  \A d \in DOMAIN hist.locksFor : d # 0 => hist.locksFor[d] <= 1

\* The watchers of key k that have been spawned and have not terminated.
LiveWatchers(k) == {m \in InstancesOf(k) : wpc[m] \notin {"none", "done"}}

\* C10: a key has at most one live watcher, and an entry whose watcher has been
\* spawned has exactly one live watcher, its own.
C10_OneWatcherPerKey ==
  \A k \in Keys :
    /\ Cardinality(LiveWatchers(k)) <= 1
    /\ (monitors[k] # 0 /\ wpc[monitors[k]] # "none") => LiveWatchers(k) = {monitors[k]}

\* The entry of key k, of instance m, is deleted by this step.
Deleted(k, m) == monitors[k] = m /\ m # 0 /\ monitors'[k] # m

\* C11: an entry disappears only through the self-removal of its own watcher,
\* through Severe's clear, or (as handle_status does at line 113) through the
\* purge by Status of an entry whose removed flag is set; no other step, and
\* no step of Tether, deletes or replaces an entry.
C11_StepDeletes ==
  \A k \in Keys : \A m \in Mons :
    Deleted(k, m) =>
      /\ monitors'[k] = 0
      /\ \/ wpc[m] = "cleanup" /\ wpc'[m] = "done"
         \/ \E c \in Conns : cpc[c] = "sv_clear" /\ cpc'[c] = "replied"
         \/ \E c \in Conns : cpc[c] = "st_retain" /\ cpc'[c] # "st_retain" /\ removed[m]

C11_OnlyOwnWatcherOrSevere == [][C11_StepDeletes]_vars

\* What the handler returns for a text it answers without reaching the
\* registry.
ReturnedAtOnce(text) ==
  IF handler = "status_ok" THEN status_ok(text)
  ELSE LET cmd == handle_command(text)
       IN IF cmd.op = "err" THEN cmd.err ELSE TetherArgs(cmd.bus, cmd.address).err

\* The response a worker writes is the rendering of what its handler
\* returned for the trimmed request, and a connection is written to at most
\* once: only the step from "read" (or the return of a handler) writes.
C12_OneResponse ==
  \A c \in Conns :
    /\ resp'[c] # resp[c] =>
         \/ resp[c] = Nothing /\ cpc'[c] = "replied" /\ resp'[c].body.tag \in {"ok", "err"}
                              /\ resp'[c].prefix = (IF resp'[c].body.tag = "err" THEN "ERR: " ELSE "")
         \/ cpc[c] = "replied" /\ cpc'[c] = "closed" /\ resp'[c] = Nothing
    /\ (cpc[c] = "read" /\ cpc'[c] = "replied") =>
         resp'[c] = Response(ReturnedAtOnce(Trim(req[c])))

\* What the client of a replied connection gets.
C12_Answers ==
  \A c \in Conns :
    cpc[c] = "replied" =>
      /\ (handler = "status_ok" /\ Trim(req[c]) = <<"status">>) => ClientReceives(resp[c]) = <<"OK">>
      /\ (handler = "status_ok" /\ Trim(req[c]) # <<"status">>) =>
           ClientReceives(resp[c]) = <<"ERR: ", "Unknown command">>
      /\ (handler = "handle_command" /\ req[c] = <<"foo">>) =>
           ClientReceives(resp[c]) = <<"ERR: ", "unknown command", ": ", "foo">>
      /\ resp[c].body.tag = "ok" => Bytes(resp[c]) = Message(resp[c].body)
      /\ resp[c].body.tag = "err" => Bytes(resp[c]) = <<"ERR: ">> \o Message(resp[c].body)

\* C12: for a client with the daemon's uid whose request is read, the handler
\* runs once, on the trimmed text, and one response is written: the Ok body
\* as it is, or "ERR: " and the error message.  The single-shot server started
\* with the closure answering "OK" to "status" answers "OK"; the daemon answers
\* "foo" with "ERR: unknown command: foo".
C12_Theorem == []C12_Answers /\ [][C12_OneResponse]_vars

\* The single-shot server has answered "OK" to " status ".
C12_Witness ==
  \E c \in Conns :
    /\ handler = "status_ok" /\ cpc[c] = "replied" /\ req[c] = <<" ", "status", " ">>
    /\ Bytes(resp[c]) = <<"OK">>

\* The error the protocol prescribes for a malformed text, as a message and
\* the word it names; "none" for a well-formed one.
ProtocolError(text) ==
  LET ws == SelectSeq(text, LAMBDA w : w # " ") IN
  CASE ws = <<>> -> <<"empty command", "">>
    [] ws # <<>> /\ ws[1] \notin {"status", "tether", "severe"} -> <<"unknown command", ws[1]>>
    [] ws # <<>> /\ ws[1] \in {"status", "severe"} /\ Len(ws) > 1 -> <<"unexpected argument", ws[2]>>
    [] ws # <<>> /\ ws[1] = "tether" /\ Len(ws) = 1 -> <<"missing bus number", "">>
    [] ws # <<>> /\ ws[1] = "tether" /\ Len(ws) = 2 -> <<"missing device id", "">>
    [] ws # <<>> /\ ws[1] = "tether" /\ Len(ws) > 3 -> <<"unexpected argument", ws[4]>>
    [] OTHER -> <<"none", "">>

\* The step that handles a malformed text.
C13_Step ==
  \A c \in Conns :
    (/\ handler = "handle_command" /\ cpc[c] = "read" /\ cpc'[c] # "read"
     /\ cpc'[c] # "closed" /\ ProtocolError(req[c])[1] # "none") =>
      /\ cpc'[c] = "replied"
      /\ resp'[c] = Response(Err(ProtocolError(req[c])[1], NoKey, ProtocolError(req[c])[2]))
      /\ Bytes(resp'[c])[1] = "ERR: "
      /\ UNCHANGED <<monitors, mutex, removed, lock_on_remove, minfo, nmon, wpc,
                     registered, evq, locks>>

\* C13: a request that is empty, names an unknown command, gives "status" or
\* "severe" an argument, or gives "tether" fewer or more than two, is answered
\* with the error naming the fault, in the step that parses it: the registry
\* lock is not acquired, and registry, flags, instances and watchers are
\* unchanged.
C13_Theorem == [][C13_Step]_vars

\* "status x" was refused while the registry held an entry.
C13_Witness ==
  \E c \in Conns :
    /\ cpc[c] = "replied" /\ req[c] = <<"status", " ", "x">>
    /\ Bytes(resp[c]) = <<"ERR: ", "unexpected argument", ": ", "x">>
    /\ Entries # {} /\ mutex = 0

\* The line Status owes the entry of key k: address, vendor:product, the
\* name if the device gave one, and the tag of the removed flag.
ExpectedLine(k) ==
  <<"bus ", Pad3(k.bus), " address ", Pad3(k.address), " ",
    Hex4(Descriptor(k).vendor_id), ":", Hex4(Descriptor(k).product_id)>>
  \o (IF k.address = 1 THEN <<" - ", "name">> ELSE <<>>)
  \o <<" [", IF removed[monitors[k]] THEN "disconnected" ELSE "watching", "]">>

\* The two steps of Status.
C14_Step ==
  \A c \in Conns :
    /\ (cpc[c] = "st_retain" /\ cpc'[c] # "st_retain") =>
         /\ Entries' = {k \in Entries : ~removed[monitors[k]]}
         /\ \A k \in Entries' : monitors'[k] = monitors[k]
         /\ IF Entries' = {}
            THEN cpc'[c] = "replied" /\ Bytes(resp'[c]) = <<"no active tethers">>
            ELSE cpc'[c] = "st_render" /\ resp'[c] = Nothing
         /\ UNCHANGED <<removed, lock_on_remove, minfo, wpc>>
    /\ (cpc[c] = "st_render" /\ cpc'[c] # "st_render") =>
         /\ cpc'[c] = "replied" /\ resp'[c].prefix = ""
         /\ Cardinality(resp'[c].body.lines) = Cardinality(Entries)
         /\ {LineText(l) : l \in resp'[c].body.lines} = {ExpectedLine(k) : k \in Entries}
         /\ UNCHANGED <<monitors, removed, lock_on_remove, minfo, wpc>>

\* C14: Status first drops every entry whose removed flag is set; it then
\* answers "no active tethers" if no entry is left, otherwise one line per
\* entry left, with bus and address, vendor:product, the name if there is one,
\* and "watching" or "disconnected" as the removed flag reads when the line is
\* made; an entry just tethered, not removed, reads "watching".  Status writes
\* no flag.
C14_Theorem == [][C14_Step]_vars

\* Status, after one Tether, answered with the line of the device.
C14_Witness ==
  \E c \in Conns :
    /\ cpc[c] = "replied" /\ Trim(req[c]) = <<"status">> /\ nmon = 1
    /\ hist.tethers[DeviceKey(1, 1)] = <<"ok">>
    /\ Bytes(resp[c]) = <<"bus ", "001", " address ", "001", " ", "0001", ":", "0001",
                          " - ", "name", " [", "watching", "]">>

\* handle_events hands watcher m the next event of its context, and the
\* event is about another bus or address than the watcher's.
ForeignDelivery(m) ==
  /\ wpc[m] = "pump" /\ wpc'[m] = "pump"
  /\ evq[m] # <<>> /\ evq'[m] = Tail(evq[m])
  /\ Head(evq[m]).key # minfo[m].key

\* C15: a departure or an arrival at a bus and address other than a watcher's
\* own, delivered to that watcher because the unit shares its vendor and
\* product id, changes neither flag of any instance, nor the registry, nor
\* the number of lock_all_sessions calls, nor the course of the watcher.
C15_ForeignEventIgnored ==
  [][(\E m \in Mons : ForeignDelivery(m)) =>
       UNCHANGED <<removed, lock_on_remove, monitors, mutex, locks, wpc, registered>>]_vars

\* The only watcher, of the unit at address 1, has been handed the departure
\* of the unit at address 2 and watches on.
C15_Witness ==
  \E m \in Mons :
    /\ nmon = 1 /\ minfo[m].key = DeviceKey(1, 1) /\ wpc[m] = "pump" /\ evq[m] = <<>>
    /\ hist.leftSeen /\ ~present[DeviceKey(1, 2)] /\ present[DeviceKey(1, 1)] /\ nhw = 1
    /\ ~removed[m] /\ lock_on_remove[m] /\ monitors[DeviceKey(1, 1)] = m /\ locks[m] = 0

\* The sessions of an output: the first word of every line that has one,
\* the first line apart.
Enumerated(out) ==
  LET rest == SelectSeq(SubSeq(out, 2, Len(out)), LAMBDA l : l # <<>>)
  IN [j \in 1..Len(rest) |-> rest[j][1]]

\* C16: in a call of lock_all_sessions, when list-sessions cannot be run or
\* exits with a failure no lock-session is run and the call returns Err; when
\* it succeeds the call returns Ok after running lock-session once for every
\* session of the output, in order, whatever the earlier ones came to; and a
\* watcher calls lock_all_sessions once at most.
C16_LockAttempt ==
  \A m \in Mons :
    /\ locks[m] <= 1
    /\ lk[m].pc = "none" => lk[m].asked = <<>> /\ lk[m].ret = "none"
    /\ lk[m].list \in {"spawn_err", "exit_nonzero"} =>
         lk[m].asked = <<>> /\ lk[m].ret = "Err" /\ lk[m].pc \in {"ret", "done"}
    /\ lk[m].list = "exit_zero" =>
         /\ lk[m].pc = "loop" =>
              /\ lk[m].ret = "none"
              /\ \/ lk[m].i > Len(lk[m].out) /\ lk[m].asked = Enumerated(lk[m].out)
                 \/ /\ lk[m].i <= Len(lk[m].out)
                    /\ lk[m].asked = Enumerated(SubSeq(lk[m].out, 1, lk[m].i - 1))
         /\ lk[m].pc \in {"ret", "done"} =>
              lk[m].asked = Enumerated(lk[m].out) /\ lk[m].ret = "Ok"
    /\ wpc[m] \in {"cleanup", "done"} /\ locks[m] = 1 => lk[m].pc = "done"

\* A call returned Ok having asked for session c2 after lock-session failed
\* for c1, and the watcher went on to remove its entry.
C16_Witness ==
  \E m \in Mons :
    /\ wpc[m] = "done" /\ lk[m].ret = "Ok"
    /\ lk[m].asked = <<"c1", "c2">> /\ lk[m].results[1] = "exit_nonzero"

\* C17: main checks the effective uid before it touches the socket path: a
\* daemon that is not root exits with the path as it found it, nothing bound
\* and no connection accepted; when the bind fails the daemon ends with no
\* connection accepted; a socket file left by an earlier run is gone when
\* bind is called; and connections are accepted only by root on a bound path.
C17_StartupOrder ==
  /\ startup.pc # "main" => (startup.pc = "exit" <=> startup.euid # RootUid)
  /\ startup.pc = "exit" => startup.path = startup.found /\ nconn = 0
  /\ startup.pc \in {"main", "remove", "bind", "panic"} => nconn = 0 /\ startup.path # "bound"
  /\ startup.pc \in {"bind", "panic"} => startup.path # "stale"
  /\ startup.found = "stale" /\ startup.pc = "panic" => startup.path = "absent"
  /\ nconn > 0 => startup.pc = "serve" /\ startup.path = "bound" /\ startup.euid = RootUid

\* Root's daemon found a stale socket file, bound the path and served a
\* request.
C17_Witness ==
  /\ startup.pc = "serve" /\ startup.found = "stale" /\ startup.path = "bound"
  /\ \E c \in Conns : cpc[c] = "closed"

\* Line 240 runs for instance m: a worker in Severe stores true in its
\* removed flag.
SevereMarks(m) ==
  \E c \in Conns : /\ cpc[c] = "sv_rem" /\ cpc'[c] # "sv_rem"
                   /\ monitors[loc[c].cur] = m

\* C18: Severe stores true in an instance's removed flag only when its
\* lock_on_remove flag is already false, and nothing stores true in that flag
\* again; so every instance whose removed flag Severe has written has
\* lock_on_remove false, and a watcher whose removed flag was never set by a
\* departure of its device is not in lock_all_sessions and has never been.
C18_SevereDisarmsFirst ==
  /\ [](\A m \in Mons :
          /\ m \in hist.severed => ~lock_on_remove[m]
          /\ (m \in hist.severed /\ ~cause[m].left) => (locks[m] = 0 /\ wpc[m] # "locking"))
  /\ [][\A m \in Mons :
          /\ SevereMarks(m) => (~lock_on_remove[m] /\ ~lock_on_remove'[m] /\ removed'[m])
          /\ (wpc[m] # "none" /\ ~lock_on_remove[m]) => ~lock_on_remove'[m]]_vars

\* While Severe still holds the registry, a watcher whose removed flag it
\* set has read both flags and passed lock_all_sessions by.
C18_Witness ==
  \E m \in Mons :
    /\ m \in hist.severed /\ ~cause[m].left /\ hist.severe = "running"
    /\ wpc[m] = "cleanup" /\ removed[m] /\ ~lock_on_remove[m] /\ locks[m] = 0

\* C19: once Severe has stored true in an instance's removed flag, the
\* instance's watcher, scheduled fairly, leaves monitor_device in the end.
C19_SevereStopsWatcher ==
  \A m \in Mons : (m \in hist.severed) ~> (wpc[m] = "done")

\* The watcher of instance m has left its loop, by the flag or by an error
\* of handle_events.
PastLoop(m) == wpc[m] \in {"chk", "chklock", "locking", "cleanup", "done"}

\* C20: a watcher leaves monitor_device only by way of remove_monitor, after
\* which no entry is stored under its key, whether it failed to start, left
\* on an error of handle_events, or saw its removed flag and did or did not
\* call lock_all_sessions; and once it has left its loop its callback is no
\* longer registered, so it is deregistered when the flags are read, when
\* lock_all_sessions is called and when the key is removed.
C20_ExitPaths ==
  /\ [](\A m \in Mons : (PastLoop(m) \/ wpc[m] \in {"none", "start"}) => ~registered[m])
  /\ [][\A m \in Mons :
          /\ (wpc[m] # "done" /\ wpc'[m] = "done") =>
               /\ wpc[m] = "cleanup" /\ ~registered[m]
               /\ monitors'[minfo[m].key] = 0
          /\ (wpc[m] \in {"start", "poll", "pump"} /\ wpc'[m] \notin {"start", "poll", "pump"}) =>
               /\ wpc'[m] \in {"chk", "cleanup"}
               /\ ~registered'[m]
          /\ (PastLoop(m) /\ wpc'[m] # wpc[m]) => PastLoop(m)'
          /\ locks'[m] # locks[m] => ~registered[m] /\ monitors' = monitors]_vars

\* Two watchers are through: one saw the departure and called
\* lock_all_sessions, the other left without its removed flag set, on an
\* error; neither key is in the registry.
C20_Witness ==
  \E m, n \in Mons :
    /\ wpc[m] = "done" /\ removed[m] /\ locks[m] = 1
    /\ wpc[n] = "done" /\ ~removed[n] /\ locks[n] = 0
    /\ monitors[minfo[m].key] = 0 /\ monitors[minfo[n].key] = 0

\* C21: a watcher whose loop ended on an error of handle_events goes on to
\* remove_monitor without calling lock_all_sessions (hist.broke holds the
\* watchers between the break of line 338 and the end of the if of lines
\* 344-353).
C21_NoLockAfterPumpError ==
  [][\A m \in hist.broke : locks'[m] = locks[m] /\ wpc'[m] # "locking"]_vars

\* remove_monitor runs for the watcher of instance m.
SelfRemoval(m) == wpc[m] = "cleanup" /\ wpc'[m] = "done"

LockPcs == {"st_retain", "t_check", "t_insert", "sv_lock"}

\* The positions of a worker between taking the guard and dropping it: the
\* rendering of Status, and the loop and the clear of Severe.
HoldPcs == {"st_render", "sv_lor", "sv_rem", "sv_clear"}

C23_MutexDiscipline ==
  /\ mutex \in {0} \cup Conns
  /\ \A c \in Conns : mutex = c <=> cpc[c] \in HoldPcs
  /\ \A c \in Conns :
       cpc[c] \in LockPcs \cup {"auth", "read", "replied", "t_lookup", "t_spawn", "t_ret"}
         => mutex # c

\* C23: the registry mutex is held only by a worker inside Status's
\* rendering or Severe's loop and clear: never by a thread that is at a call
\* of lock(), at the socket, in lookup_device, in handle_events or in
\* lock_all_sessions (a watcher holds it only inside remove_monitor); and
\* every worker at a call of lock() gets past it, and every watcher at
\* remove_monitor gets through, when all threads keep running.
C23_Theorem ==
  /\ []C23_MutexDiscipline
  /\ \A c \in Conns : (cpc[c] \in LockPcs) ~> (cpc[c] \notin LockPcs)
  /\ \A m \in Mons : (wpc[m] = "cleanup") ~> (wpc[m] = "done")

\* Severe holds the mutex while another worker is at its call of lock() and
\* a watcher is at remove_monitor.
C23_Witness ==
  \E c, d \in Conns, m \in Mons :
    /\ mutex = d /\ cpc[d] = "sv_clear"
    /\ cpc[c] \in LockPcs /\ wpc[m] = "cleanup"

\* The fields sent that denote an integer in 0..255, and the integer.
U8Value(w) ==
  CASE w = "0" -> 0 [] w = "1" -> 1 [] w = "01" -> 1 [] w = "+1" -> 1 [] w = "2" -> 2
    [] w = "255" -> 255 [] OTHER -> -1

\* The worker of connection c has read a Tether request with two fields
\* and takes it up to the first access to the registry.
TetherDispatched(c) ==
  /\ cpc[c] = "read" /\ cpc'[c] \notin {"read", "closed"}
  /\ Len(SplitWhitespace(req[c])) = 3 /\ SplitWhitespace(req[c])[1] = "tether"

\* C24: a Tether request with bus and address fields is answered, before
\* the registry is locked or a device looked up, with the unsupported-platform
\* error when hotplug support is missing, else with 'invalid bus number: X'
\* when the bus field is not an integer in 0..255, else with 'invalid device
\* id: X' when the address field is not; only otherwise does the handler go
\* on, with the key the two numbers make.
C24_TetherFields ==
  [][\A c \in Conns : TetherDispatched(c) =>
       LET bus == SplitWhitespace(req[c])[2]
           address == SplitWhitespace(req[c])[3]
       IN /\ UNCHANGED <<monitors, mutex, removed, lock_on_remove, nmon, wpc>>
          /\ IF ~hotplug
             THEN /\ cpc'[c] = "replied"
                  /\ Bytes(resp'[c]) =
                       <<"ERR: ", "libusb hotplug support is not available on this system">>
             ELSE IF U8Value(bus) = -1
             THEN /\ cpc'[c] = "replied"
                  /\ Bytes(resp'[c]) = <<"ERR: ", "invalid bus number", ": ", bus>>
             ELSE IF U8Value(address) = -1
             THEN /\ cpc'[c] = "replied"
                  /\ Bytes(resp'[c]) = <<"ERR: ", "invalid device id", ": ", address>>
             ELSE /\ cpc'[c] = "t_check"
                  /\ loc'[c].key = DeviceKey(U8Value(bus), U8Value(address))]_vars

\* 'tether x 256' was answered with the error naming the bus field, and
\* 'tether 0 255' went on to look for a device at bus 0 address 255.
C24_Witness ==
  \E c, d \in Conns :
    /\ cpc[c] = "replied" /\ req[c] = <<"tether", " ", "x", " ", "256">>
    /\ Bytes(resp[c]) = <<"ERR: ", "invalid bus number", ": ", "x">>
    /\ cpc[d] = "t_lookup" /\ loc[d].key = DeviceKey(0, 255)

\* Three decimal digits of a bus number or an address in an answer.
ThreeDigits(n) == CASE n = 0 -> "000" [] n = 1 -> "001" [] n = 2 -> "002" [] n = 255 -> "255"

\* C25: an entry appears under a key only in the step of a worker that is
\* at Tether's insert for that key and finds no entry under it in that same
\* step; a worker comes to the insert only from its own lookup_device, and
\* only when a device was attached at exactly its bus and address at the
\* lookup; and a lookup that finds no device there is answered with 'no
\* device found on bus BBB address AAA' and leaves the registry as it was.
C25_InsertOnlyFoundAndAbsent ==
  [][/\ \A k \in Keys : (monitors[k] = 0 /\ monitors'[k] # 0) =>
          \E c \in Conns : /\ cpc[c] = "t_insert" /\ cpc'[c] = "t_spawn"
                           /\ loc[c].key = k /\ mutex = 0
                           /\ \A j \in Keys \ {k} : monitors'[j] = monitors[j]
     /\ \A c \in Conns :
          /\ (cpc[c] # "t_insert" /\ cpc'[c] = "t_insert") =>
               /\ cpc[c] = "t_lookup" /\ loc'[c].key = loc[c].key
               /\ loc[c].key \in Keys /\ present[loc[c].key]
          /\ (cpc[c] = "t_lookup" /\ cpc'[c] # "t_lookup") =>
               /\ monitors' = monitors /\ nmon' = nmon /\ wpc' = wpc
               /\ ~(loc[c].key \in Keys /\ present[loc[c].key]) =>
                    /\ cpc'[c] = "replied"
                    /\ \/ Bytes(resp'[c]) =
                            <<"ERR: ", "no device found on bus ", ThreeDigits(loc[c].key.bus),
                              " address ", ThreeDigits(loc[c].key.address)>>
                       \/ Bytes(resp'[c]) = <<"ERR: ", "usb enumeration failed">>]_vars

\* One Tether created the entry of the device at bus 1 address 1, and
\* 'tether 0 255' was answered that no device is there.
C25_Witness ==
  \E c \in Conns :
    /\ monitors[DeviceKey(1, 1)] # 0 /\ nmon = 1
    /\ cpc[c] = "replied" /\ req[c] = <<"tether", " ", "0", " ", "255">>
    /\ Bytes(resp[c]) = <<"ERR: ", "no device found on bus ", "000", " address ", "255">>

\* handle_events hands watcher m an arrival at the watcher's own bus and
\* address.
OwnArrival(m) ==
  /\ wpc[m] = "pump" /\ wpc'[m] = "pump" /\ evq[m] # <<>> /\ evq'[m] = Tail(evq[m])
  /\ Head(evq[m]).type = "arrived" /\ Head(evq[m]).key = minfo[m].key

\* C26: an arrival at a watcher's own bus and address stores false in the
\* watcher's removed flag and does nothing else: lock_on_remove, the other
\* instances' flags, the registry, the instances, the registered callbacks
\* and every watcher's position are as before; a watcher still in its loop
\* whose last departure was so cancelled, and which Severe has not marked,
\* has its flag clear and has called lock_all_sessions for nothing; and a
\* watcher that tests a clear flag stays in its loop.
C26_ArrivalOnlyClears ==
  /\ [](\A m \in Mons :
          (wpc[m] \in {"poll", "pump"} /\ cause[m].left /\ cause[m].id = 0
             /\ m \notin hist.severed) => (~removed[m] /\ locks[m] = 0 /\ registered[m]))
  /\ [][\A m \in Mons :
          /\ OwnArrival(m) =>
               /\ removed' = [removed EXCEPT ![m] = FALSE]
               /\ UNCHANGED <<lock_on_remove, monitors, mutex, minfo, nmon, wpc, registered,
                              locks, cpc>>
          /\ (wpc[m] = "poll" /\ ~removed[m] /\ wpc'[m] # "poll") => wpc'[m] = "pump"]_vars

\* The device was unplugged and plugged in again before the watcher tested
\* its flag: the watcher is in its loop with the flag clear, the entry in
\* place, and nothing locked.
C26_Witness ==
  \E m \in Mons :
    /\ nmon = 1 /\ wpc[m] = "pump" /\ cause[m].left /\ cause[m].id = 0
    /\ ~removed[m] /\ lock_on_remove[m] /\ locks[m] = 0
    /\ present[minfo[m].key] /\ monitors[minfo[m].key] = m /\ nhw = 2

\* The instances stored in the registry.
Stored == {monitors[k] : k \in Entries}

\* The worker of connection d is inside Severe's hold of the mutex.
InSevere(d) == cpc[d] \in {"sv_lor", "sv_rem", "sv_clear"}

\* While Severe holds the mutex: its count is the number of entries, the
\* entries it has yet to visit are entries, and those it has visited are
\* disarmed.
C27_OneHold ==
  \A d \in Conns : InSevere(d) =>
    /\ mutex = d /\ loc[d].n = Cardinality(Entries) /\ loc[d].todo \subseteq Entries
    /\ \A k \in Entries \ loc[d].todo : ~lock_on_remove[monitors[k]]
    /\ \A k \in Entries \ loc[d].todo :
         monitors[k] \in hist.severed \/ (cpc[d] = "sv_rem" /\ loc[d].cur = k)
    /\ cpc[d] = "sv_clear" => loc[d].todo = {}

C27_Steps ==
  /\ \A d \in Conns :
       /\ (InSevere(d) /\ InSevere(d)') => (monitors' = monitors /\ nmon' = nmon)
       /\ (cpc[d] = "sv_clear" /\ cpc'[d] # "sv_clear") =>
            /\ Stored \subseteq hist.severed
            /\ \A m \in Stored : ~lock_on_remove[m]
            /\ Entries' = {} /\ hist'.evicted = hist.evicted \cup Entries
            /\ Bytes(resp'[d]) = <<"cleared ", ToString(Cardinality(Stored)), " tether(s)">>
  /\ \A m \in Mons :
       /\ (lock_on_remove[m] /\ ~lock_on_remove'[m]) =>
            \E d \in Conns : cpc[d] = "sv_lor" /\ mutex = d /\ m \in Stored
       /\ (m \notin hist.severed /\ m \in hist'.severed) =>
            \E d \in Conns : cpc[d] = "sv_rem" /\ mutex = d /\ m \in Stored /\ removed'[m]
  /\ \A c \in Conns :
       (cpc[c] = "t_insert" /\ cpc'[c] = "t_spawn") =>
         /\ \A d \in Conns : ~InSevere(d)
         /\ LET m == monitors'[loc[c].key] IN
              /\ m # 0 /\ m \notin Stored /\ m \notin hist'.severed
              /\ lock_on_remove'[m] /\ ~removed'[m]

\* C27: between its lock and its clear Severe holds the mutex and the
\* registry does not change; the instances it disarms and marks are the
\* stored ones and no others, the clear evicts exactly them, and the count
\* answered is their number; a Tether's insert falls before Severe's lock or
\* after its clear, and an entry inserted after the clear is armed, unmarked
\* and stored.
C27_SevereAtomic == []C27_OneHold /\ [][C27_Steps]_vars

\* Severe disarmed, marked and evicted the entry of the first device and
\* nothing else; a Tether for the second device inserted after the clear, and
\* its entry is stored, armed and unmarked.
C27_Witness ==
  \E d \in Conns, m, n \in Mons :
    /\ cpc[d] = "closed" /\ hist.severe = "no" /\ m \in hist.severed /\ n \notin hist.severed
    /\ minfo[m].key = DeviceKey(1, 1) /\ monitors[DeviceKey(1, 1)] = 0
    /\ monitors[DeviceKey(1, 2)] = n /\ lock_on_remove[n] /\ ~removed[n]
    /\ hist.evicted = {DeviceKey(1, 1)}

\* The single-shot server accepts at most one connection, whatever its
\* peer; when it has returned that connection has been handled and closed
\* and the socket file is gone.  The daemon, whatever its workers are doing
\* in their handlers, can accept the next connection.
C28_Modes ==
  /\ handler = "status_ok" =>
       /\ nconn <= 1
       /\ \A c \in Conns \ {1} : cpc[c] = "none"
       /\ startup.pc = "serve" => startup.path = "bound"
       /\ startup.pc = "returned" =>
            startup.path = "absent" /\ (nconn = 1 => cpc[1] = "closed")
  /\ (handler = "handle_command" /\ nconn < MaxConn /\ Quiet) =>
       ENABLED Accept("same", <<"status">>)

\* C28: the single-shot server handles one accepted connection, of the
\* same user or of another, removes its socket file and returns, and a
\* connection made after the first is never accepted; it returns only after
\* handle_client has, or when accept failed.  In the continuous mode a
\* connection is accepted and handed to a worker of its own while earlier
\* workers are still in their handlers.
C28_Theorem ==
  /\ []C28_Modes
  /\ [][(startup.pc = "serve" /\ startup'.pc = "returned") =>
          (handler = "status_ok" /\ (nconn = 0 \/ cpc[1] = "closed") /\ UNCHANGED connVars)]_vars

\* In the continuous mode the second connection has been answered
\* while the worker of the first, a Severe, is still inside its handler.
C28_Witness ==
  /\ handler = "handle_command" /\ nconn >= 2
  /\ cpc[1] \in {"sv_lock", "sv_lor", "sv_rem", "sv_clear", "t_lookup", "t_insert", "st_retain"}
  /\ cpc[2] = "replied" /\ Bytes(resp[2]) # <<>>

\* C29: once Severe has returned, and until the next insert of a Tether,
\* every instance whose watcher has not finished has lock_on_remove false,
\* whether or not it still had an entry when Severe ran.
C29_SevereDisarmsAll ==
  hist.severe = "returned" =>
    \A m \in Mons : (minfo[m] # NoInfo /\ wpc[m] # "done") => ~lock_on_remove[m]

\* C30: a watcher in its loop whose removed flag is false and whose
\* lock_on_remove flag is true is the instance stored under its key.
C30_ArmedWatcherStored ==
  \A m \in Mons :
    (wpc[m] \in {"poll", "pump"} /\ ~removed[m] /\ lock_on_remove[m]) =>
      monitors[minfo[m].key] = m

\* The step in which watcher m runs its cleanup (the call of remove_monitor
\* that ends monitor_device).
Cleanup(m) == wpc[m] = "cleanup" /\ wpc'[m] = "done"

\* C31: the cleanup of a watcher removes only the entry inserted by the
\* Tether that spawned it; an entry of another instance, stored under the
\* same key after an eviction, is still stored after the step.
C31_StepKeepsOthers ==
  \A m \in Mons :
    Cleanup(m) =>
      \A k \in Keys : (monitors[k] # 0 /\ monitors[k] # m) => monitors'[k] = monitors[k]

\* C31: every step of the daemon is such a step: no cleanup deletes the entry
\* of another instance.
C31_CleanupRemovesOwnEntry == [][C31_StepKeepsOthers]_vars

\* The clients that have been connected.
Clients == {c \in Conns : client[c].pc # "none"}

\* C32: a client of the daemon's own user that has returned has the trimmed
\* response the worker wrote; a client of another user has an empty text or
\* an error.
C32_ClientResult ==
  \A c \in Clients :
    client[c].pc = "returned" =>
      IF ensure_same_user(client[c].uid)
      THEN client[c].res = OkText(ClientReceives(client[c].inbox))
      ELSE client[c].res \in {OkText(<<>>), IoError}

\* Every client that has connected returns.
C32_ClientReturns == <>[](\A c \in Clients : client[c].pc = "returned")

\* A Tether whose request did not fit the buffer has inserted its entry and
\* its client has returned.
LongTetherDone ==
  \E c \in Clients :
    /\ client[c].pc = "returned"
    /\ client[c].inbox.body.msg = "tether active"
    /\ client[c].end = "reset"

====
